---- MODULE Spec2Model ----
(***************************************************************************)
(* Model of the cave decoding engine of bouldercaves (caves.py): the       *)
(* Boulder Dash pseudo random generator, the drawing primitives over the   *)
(* flat code buffer, the instruction-stream interpreter of build_map and   *)
(* decode_from_lvl.                                                        *)
(*                                                                         *)
(* Python lists and bytearrays are modelled as functions over 0..len-1, so *)
(* that indices are the source's.  An exception is the field exc of the    *)
(* object a primitive works on ("none" while no exception is pending).     *)
(***************************************************************************)
EXTENDS Integers, Sequences, FiniteSets, TLC

VARIABLES
    pc,        \* position of the caller: "idle", a build_map phase, "done", "error"
    cave,      \* the C64Cave object under construction (fields of the instance)
    seeds,     \* the two-element seed list handed to bdrandom
    fill_x,    \* loop variable x of the randomized fill of build_map
    fill_y,    \* loop variable y of the randomized fill of build_map
    n,         \* read position of build_map in the instruction stream
    data,      \* the instruction stream build_map was called with
    returned,  \* what the last finished call gave its caller
    calls,     \* history: the calls made by the operation under way
    pre,       \* history: the mutated object as it was before the last call
    input,     \* history: the instructions and the tail the stream was encoded from
    decoded,   \* history: the level numbers decoded so far
    hist,      \* history: first outcome of decode_from_lvl per level number
    caveset,   \* the CaveSet object: its mode and the caves it serves
    suspended, \* the locals of a second call that is under way and not running
    editor     \* the EditorWindow: its playfield size, what it wrote and launched

vars == <<pc, cave, seeds, fill_x, fill_y, n, data, returned, calls, pre, input, decoded, hist,
          caveset, suspended, editor>>

----------------------------------------------------------------------------
(* the bounds of the model *)

\* the size of the caves built (decode_from_lvl builds 40 x 22)
GridWidth == 5
GridHeight == 4

\* the longest line and the widest and highest rectangle drawn on their own
MaxLength == 4

\* the most instructions in a generated instruction stream
MaxInstructions == 2

\* the most calls of decode_from_lvl in one behaviour
MaxDecodes == 3

\* the cells of a map line translated to cells and back
LineLength == 2

\* the widest and highest cave handed to resize, besides the 10 x 8 one
MaxSide == 3

\* the longest seed list handed to bdrandom
MaxSeeds == 3

\* the most cell edits made in the editor in one behaviour
MaxEdits == 2

\* cave = cls(data[0], name, description, 40, 22)
CaveWidth == 40
CaveHeight == 22

----------------------------------------------------------------------------
(* Python values *)

\* fillobject: int = None
None == -1

\* a Python list / bytearray holding the elements of the tuple t
PyList(t) == [i \in 0 .. Len(t) - 1 |-> t[i + 1]]

PyLen(l) == Cardinality(DOMAIN l)

\* a & b on non-negative integers
RECURSIVE BitAnd(_, _)
BitAnd(a, b) ==
    IF a = 0 \/ b = 0 THEN 0
    ELSE (a % 2) * (b % 2) + 2 * BitAnd(a \div 2, b \div 2)

\* a shift by one bit less
ShiftRightShort(a, k) == a \div (2 ^ (k - 1))

\* a >> k on non-negative integers
ShiftRight(a, k) == a \div (2 ^ k)

\* a bool used as an integer
Carry(result) == IF result > 255 THEN 1 ELSE 0

----------------------------------------------------------------------------
(* C64Cave.bdrandom *)

\* leading assertions that check the upper limit of each seed only
BdrandomPreUpper(s) ==
    /\ PyLen(s) = 2
    /\ s[0] <= 255
    /\ s[1] <= 255

\* the three leading assertions
BdrandomPre(s) ==
    /\ PyLen(s) = 2
    /\ 0 <= s[0] /\ s[0] <= 255
    /\ 0 <= s[1] /\ s[1] <= 255

\* the two trailing assertions
BdrandomPost(s) ==
    /\ 0 <= s[0] /\ s[0] <= 255
    /\ 0 <= s[1] /\ s[1] <= 255

\* the last statement computing seeds[0]: result & 0x00FF
MaskSeed0NoMask(result) == result

MaskSeed0(result) == BitAnd(result, 255)

\* the carry out of the addition to seeds[1]
Carry2Dropped(result) == 0

Carry2(result) == Carry(result)

\* the seed list after the arithmetic of one call
BdrandomStep(s) ==
    LET tmp1    == BitAnd(s[0], 1) * 128
        tmp2    == BitAnd(ShiftRight(s[1], 1), 127)
        result1 == s[1] + BitAnd(s[1], 1) * 128
        carry1  == Carry(result1)
        result2 == BitAnd(result1, 255) + carry1 + 19
        carry2  == Carry2(result2)
        seed1   == BitAnd(result2, 255)
        result3 == s[0] + carry2 + tmp1
        carry3  == Carry(result3)
        result4 == BitAnd(result3, 255) + carry3 + tmp2
    IN  (0 :> MaskSeed0(result4)) @@ (1 :> seed1)

\* bdrandom(seeds): the list after the call and the exception it raised
bdrandom(s) ==
    IF ~BdrandomPre(s) THEN [seeds |-> s, exc |-> "AssertionError"]
    ELSE LET t == BdrandomStep(s)
         IN  [seeds |-> t,
              exc   |-> IF BdrandomPost(t) THEN "none" ELSE "AssertionError"]

----------------------------------------------------------------------------
(* the drawing primitives *)

\* bytearray item assignment b[i] = v: a negative i counts from the end
PyIndex(i, len) == IF i < 0 THEN i + len ELSE i

\* draw_single: self.codemap[x + y * self.width] = obj
draw_single(c, obj, x, y) ==
    IF c.exc # "none" THEN c
    ELSE LET len == PyLen(c.codemap)
             i   == x + y * c.width
         IN  IF i >= len \/ i < -len THEN [c EXCEPT !.exc = "IndexError"]
             ELSE IF obj \notin 0 .. 255 THEN [c EXCEPT !.exc = "ValueError"]
             ELSE [c EXCEPT !.codemap[PyIndex(i, len)] = obj]

\* a table of draw_line with two neighbours exchanged
DirectionTableSwapped ==
    PyList(<< <<0, -1>>, <<1, -1>>, <<1, 0>>, <<1, 1>>,
              <<0, 1>>, <<-1, 0>>, <<-1, 1>>, <<-1, -1>> >>)

\* the (dx, dy) list of draw_line
DirectionTable ==
    PyList(<< <<0, -1>>, <<1, -1>>, <<1, 0>>, <<1, 1>>,
              <<0, 1>>, <<-1, 1>>, <<-1, 0>>, <<-1, -1>> >>)

\* the loop of draw_line with k iterations left
RECURSIVE DrawLineLoop(_, _, _, _, _, _, _)
DrawLineLoop(c, obj, x, y, dx, dy, k) ==
    IF k <= 0 \/ c.exc # "none" THEN c
    ELSE DrawLineLoop(draw_single(c, obj, x, y), obj, x + dx, y + dy, dx, dy, k - 1)

draw_line(c, obj, x, y, length, direction) ==
    IF c.exc # "none" THEN c
    ELSE IF direction >= 8 \/ direction < -8 THEN [c EXCEPT !.exc = "IndexError"]
    ELSE LET d == DirectionTable[PyIndex(direction, 8)]
         IN  DrawLineLoop(c, obj, x, y, d[1], d[2], length)

\* an unsigned byte subtraction in place of Python's width - 2
InteriorLengthUnderflow(width) == (width - 2) % 256

\* the length of an interior row: width - 2
InteriorLength(width) == width - 2

\* the fill loop of draw_rectangle, from row y on
RECURSIVE FillRows(_, _, _, _, _, _)
FillRows(c, fillobject, x1, y, ylast, width) ==
    IF y > ylast \/ c.exc # "none" THEN c
    ELSE FillRows(draw_line(c, fillobject, x1 + 1, y, InteriorLength(width), 2),
                  fillobject, x1, y + 1, ylast, width)

\* draw_rectangle whose sides run the full height
draw_rectangle_sides(c, obj, x1, y1, width, height, fillobject) ==
    LET c1 == draw_line(c, obj, x1, y1, width, 2)
        c2 == draw_line(c1, obj, x1, y1 + height - 1, width, 2)
        c3 == draw_line(c2, obj, x1, y1 + 1, height, 4)
        c4 == draw_line(c3, obj, x1 + width - 1, y1 + 1, height, 4)
    IN  IF fillobject # None
        THEN FillRows(c4, fillobject, x1, y1 + 1, y1 + height - 2, width)
        ELSE c4

draw_rectangle(c, obj, x1, y1, width, height, fillobject) ==
    LET c1 == draw_line(c, obj, x1, y1, width, 2)
        c2 == draw_line(c1, obj, x1, y1 + height - 1, width, 2)
        c3 == draw_line(c2, obj, x1, y1 + 1, height - 2, 4)
        c4 == draw_line(c3, obj, x1 + width - 1, y1 + 1, height - 2, 4)
    IN  IF fillobject # None
        THEN FillRows(c4, fillobject, x1, y1 + 1, y1 + height - 2, width)
        ELSE c4

----------------------------------------------------------------------------
(* C64Cave.build_map *)

\* seeds = [0, self.randomseed], whatever an earlier call left behind
InitialSeedsSurviving(old, randomseed) ==
    IF old = <<>> THEN (0 :> 0) @@ (1 :> randomseed) ELSE old

InitialSeeds(old, randomseed) == (0 :> 0) @@ (1 :> randomseed)

\* the loop over zip(random_objects, random_probabilities), from pair i on
RECURSIVE RandomObjectLoop(_, _, _, _, _)
RandomObjectLoop(obj, seed0, objs, probs, i) ==
    IF i >= PyLen(objs) \/ i >= PyLen(probs) THEN obj
    ELSE RandomObjectLoop(IF seed0 < probs[i] THEN objs[i] ELSE obj,
                          seed0, objs, probs, i + 1)

\* a selection that stops at the first pair that qualifies
RandomObjectFirst(seed0, objs, probs) ==
    IF \E i \in DOMAIN probs : seed0 < probs[i]
    THEN objs[CHOOSE i \in DOMAIN probs :
                 seed0 < probs[i] /\ \A j \in DOMAIN probs : seed0 < probs[j] => i <= j]
    ELSE 1

\* obj = 0x01, then the loop
RandomObject(seed0, objs, probs) == RandomObjectLoop(1, seed0, objs, probs, 0)

\* one iteration of the two fill loops
FillCell ==
    /\ pc = "fill"
    /\ LET r   == bdrandom(seeds)
           obj == RandomObject(r.seeds[0], cave.random_objects, cave.random_probabilities)
           c   == IF r.exc = "none" THEN draw_single(cave, obj, fill_x, fill_y)
                  ELSE [cave EXCEPT !.exc = r.exc]
       IN  /\ seeds' = r.seeds
           /\ cave' = c
           /\ calls' = Append(calls, [op |-> "fill", obj |-> obj, x |-> fill_x,
                                      y |-> fill_y, seed0 |-> r.seeds[0]])
           /\ IF c.exc # "none"
              THEN pc' = "error" /\ UNCHANGED <<fill_x, fill_y>>
              ELSE IF fill_x + 1 < cave.width
              THEN pc' = "fill" /\ fill_x' = fill_x + 1 /\ UNCHANGED fill_y
              ELSE IF fill_y + 1 < cave.height - 1
              THEN pc' = "fill" /\ fill_x' = 0 /\ fill_y' = fill_y + 1
              ELSE pc' = "boundary" /\ UNCHANGED <<fill_x, fill_y>>
    /\ pre' = cave.codemap
    /\ UNCHANGED <<n, data, returned, input, decoded, hist,
                   caveset, suspended, editor>>

\* a boundary that stops one cell short of the right and bottom edges
SteelRectangleShort(c) == draw_rectangle(c, 7, 0, 0, c.width - 1, c.height - 1, None)

\* self.draw_rectangle(0x07, 0, 0, self.width, self.height)
SteelRectangle(c) == draw_rectangle(c, 7, 0, 0, c.width, c.height, None)

SteelBoundary ==
    /\ pc = "boundary"
    /\ cave' = SteelRectangle(cave)
    /\ pc' = IF cave'.exc = "none" THEN "instr" ELSE "error"
    /\ n' = 0
    /\ calls' = Append(calls, [op |-> "boundary"])
    /\ pre' = cave.codemap
    /\ UNCHANGED <<seeds, fill_x, fill_y, data, returned, input, decoded, hist,
                   caveset, suspended, editor>>

\* a filled rectangle taken to be as long as an outline rectangle
InstructionLengthShort(kind) ==
    CASE kind = 0 -> 3 [] kind = 1 -> 5 [] kind = 2 -> 5 [] kind = 3 -> 5 [] OTHER -> 0

\* the bytes an instruction of each kind consumes (n += ...)
InstructionLength(kind) ==
    CASE kind = 0 -> 3 [] kind = 1 -> 5 [] kind = 2 -> 6 [] kind = 3 -> 5 [] OTHER -> 0

\* the while condition of the instruction loop
MoreInstructions == n < PyLen(data) /\ data[n] < 255

\* operands whose row is taken as it stands in the data
OperandsUnadjusted(kind) ==
    [x |-> data[n + 1], y |-> data[n + 2],
     a |-> IF kind \in {1, 2, 3} THEN data[n + 3] ELSE None,
     b |-> IF kind \in {1, 2, 3} THEN data[n + 4] ELSE None,
     c |-> IF kind = 2 THEN data[n + 5] ELSE None]

\* the operands of the instruction at n, read as the branch of its kind reads
\* them (a read past the end of the list raises IndexError before any drawing)
Operands(kind) ==
    [x |-> data[n + 1], y |-> data[n + 2] - 2,
     a |-> IF kind \in {1, 2, 3} THEN data[n + 3] ELSE None,
     b |-> IF kind \in {1, 2, 3} THEN data[n + 4] ELSE None,
     c |-> IF kind = 2 THEN data[n + 5] ELSE None]

LastOperand(kind) == CASE kind = 0 -> 2 [] kind = 2 -> 5 [] kind \in {1, 3} -> 4 [] OTHER -> 2

\* the branch of the instruction's kind
Dispatch(c, kind, obj, o) ==
    CASE kind = 0 -> draw_single(c, obj, o.x, o.y)
      [] kind = 1 -> draw_line(c, obj, o.x, o.y, o.a, o.b)
      [] kind = 2 -> draw_rectangle(c, obj, o.x, o.y, o.a, o.b, o.c)
      [] kind = 3 -> draw_rectangle(c, obj, o.x, o.y, o.a, o.b, None)
      [] OTHER    -> [c EXCEPT !.exc = "ValueError"]

\* one iteration of the instruction loop
Instruction ==
    /\ pc = "instr"
    /\ MoreInstructions
    /\ LET obj  == BitAnd(data[n], 63)
           kind == ShiftRight(BitAnd(data[n], 192), 6)
       IN  IF n + LastOperand(kind) >= PyLen(data)
           THEN /\ cave' = [cave EXCEPT !.exc = "IndexError"]
                /\ pc' = "error"
                /\ UNCHANGED <<n, calls>>
           ELSE LET o == Operands(kind)
                    c == Dispatch(cave, kind, obj, o)
                IN  /\ cave' = c
                    /\ calls' = Append(calls, [op |-> "instr", start |-> n, kind |-> kind,
                                               obj |-> obj, x |-> o.x, y |-> o.y,
                                               a |-> o.a, b |-> o.b, c |-> o.c])
                    /\ IF c.exc = "none"
                       THEN pc' = "instr" /\ n' = n + InstructionLength(kind)
                       ELSE pc' = "error" /\ UNCHANGED n
    /\ pre' = cave.codemap
    /\ UNCHANGED <<seeds, fill_x, fill_y, data, returned, input, decoded, hist,
                   caveset, suspended, editor>>

\* the instruction loop ends: the sentinel, or the end of the data
EndOfStream ==
    /\ pc = "instr"
    /\ ~MoreInstructions
    /\ pc' = "convert"
    /\ UNCHANGED <<cave, seeds, fill_x, fill_y, n, data, returned, calls, pre, input,
                   decoded, hist,
                   caveset, suspended, editor>>

\* the conversion dict of build_map
conversion ==
    (0 :> <<"EMPTY", "NOWHERE">>) @@ (1 :> <<"DIRT", "NOWHERE">>)
    @@ (2 :> <<"BRICK", "NOWHERE">>) @@ (3 :> <<"MAGICWALL", "NOWHERE">>)
    @@ (4 :> <<"OUTBOXCLOSED", "NOWHERE">>) @@ (5 :> <<"OUTBOXBLINKING", "NOWHERE">>)
    @@ (7 :> <<"STEEL", "NOWHERE">>)
    @@ (8 :> <<"FIREFLY", "LEFT">>) @@ (9 :> <<"FIREFLY", "UP">>)
    @@ (10 :> <<"FIREFLY", "RIGHT">>) @@ (11 :> <<"FIREFLY", "DOWN">>)
    @@ (16 :> <<"BOULDER", "NOWHERE">>) @@ (18 :> <<"BOULDER", "NOWHERE">>)
    @@ (20 :> <<"DIAMOND", "NOWHERE">>) @@ (22 :> <<"DIAMOND", "NOWHERE">>)
    @@ (37 :> <<"INBOXBLINKING", "NOWHERE">>)
    @@ (48 :> <<"BUTTERFLY", "DOWN">>) @@ (49 :> <<"BUTTERFLY", "LEFT">>)
    @@ (50 :> <<"BUTTERFLY", "UP">>) @@ (51 :> <<"BUTTERFLY", "RIGHT">>)
    @@ (56 :> <<"ROCKFORD", "NOWHERE">>) @@ (58 :> <<"AMOEBA", "NOWHERE">>)

\* a conversion that takes a code it does not know for empty space
ConvertLenient ==
    /\ pc = "convert"
    /\ cave' = [cave EXCEPT
                   !.map = [i \in DOMAIN cave.codemap |->
                               IF cave.codemap[i] \in DOMAIN conversion
                               THEN conversion[cave.codemap[i]]
                               ELSE <<"EMPTY", "NOWHERE">>],
                   !.codemap = <<>>]
    /\ pc' = "built"
    /\ UNCHANGED <<seeds, fill_x, fill_y, n, data, returned, calls, pre, input,
                   decoded, hist, caveset, suspended, editor>>

\* self.map = [conversion[code] for code in self.codemap]; del self.codemap
Convert ==
    /\ pc = "convert"
    /\ IF \E i \in DOMAIN cave.codemap : cave.codemap[i] \notin DOMAIN conversion
       THEN /\ cave' = [cave EXCEPT !.exc = "KeyError"]
            /\ pc' = "error"
       ELSE /\ cave' = [cave EXCEPT
                           !.map = [i \in DOMAIN cave.codemap |-> conversion[cave.codemap[i]]],
                           !.codemap = <<>>]
            /\ pc' = "built"
    /\ UNCHANGED <<seeds, fill_x, fill_y, n, data, returned, calls, pre, input,
                   decoded, hist,
                   caveset, suspended, editor>>

\* C64Cave.__init__ and Cave.__init__: the fields the decoder works on; the
\* defaults taken from bdcff.BdcffCave() are written None and "default", the
\* decoder overwrites each of them
NewC64Cave(index, name, width, height) ==
    [index |-> index, name |-> name, intermission |-> FALSE,
     width |-> width, height |-> height, map |-> <<>>, codemap |-> <<>>,
     randomseed |-> 0,
     random_objects |-> PyList(<<0, 0, 0, 0>>),
     random_probabilities |-> PyList(<<0, 0, 0, 0>>),
     magicwall_millingtime |-> None, amoeba_slowgrowthtime |-> None,
     diamondvalue_normal |-> None, diamondvalue_extra |-> None,
     diamonds_required |-> None, time |-> None, amoebafactor |-> "default",
     colors |-> [fg1 |-> 8, fg2 |-> 11, fg3 |-> 1, amoeba |-> 5, slime |-> 6,
                 screen |-> 0, border |-> 0],
     exc |-> "none"]

\* the first position of the fill loops, or past them when they are empty
FirstPhase(c) == IF c.height - 1 > 1 /\ c.width > 0 THEN "fill" ELSE "boundary"

----------------------------------------------------------------------------
(* the generator called on its own *)

NoCave == [width |-> 0, height |-> 0, codemap |-> <<>>, exc |-> "none"]

NoInput == [instrs |-> <<>>, tail |-> <<>>]

\* no CaveSet was constructed; no second call is under way
NoCaveSet == [mode |-> "none"]
NoFrame == [pc |-> "none"]

\* no EditorWindow was constructed
NoEditor == [constructed |-> FALSE]

InitRandom ==
    /\ pc = "idle"
    /\ seeds \in {(0 :> a) @@ (1 :> b) : a \in 0 .. 255, b \in 0 .. 255}
    /\ cave = NoCave
    /\ fill_x = 0 /\ fill_y = 0 /\ n = 0
    /\ data = <<>>
    /\ returned = None
    /\ calls = <<>>
    /\ pre = <<>>
    /\ input = NoInput
    /\ decoded = <<>>
    /\ hist = <<>>
    /\ caveset = NoCaveSet
    /\ suspended = NoFrame
    /\ editor = NoEditor

CallBdrandom ==
    /\ pc = "idle"
    /\ LET r == bdrandom(seeds)
       IN  /\ seeds' = r.seeds
           /\ pc' = IF r.exc = "none" THEN "idle" ELSE "error"
           /\ returned' = r.exc
    /\ pre' = seeds
    /\ calls' = <<[op |-> "bdrandom"]>>
    /\ UNCHANGED <<cave, fill_x, fill_y, n, data, input, decoded, hist,
                   caveset, suspended, editor>>

NextRandom == CallBdrandom

SpecRandom == InitRandom /\ [][NextRandom]_vars

----------------------------------------------------------------------------
(* the instruction format, as the records of BD1CAVES are written *)

\* the bytes of one instruction: kind in the top two bits, object code in the
\* low six, x, y + 2, then the operands of the kind
Encode(i) ==
    <<i.kind * 64 + i.obj, i.x, i.y + 2>>
    \o (CASE i.kind = 0 -> <<>>
          [] i.kind = 1 -> <<i.a, i.b>>
          [] i.kind = 2 -> <<i.a, i.b, i.c>>
          [] i.kind = 3 -> <<i.a, i.b>>)

RECURSIVE EncodeAll(_)
EncodeAll(il) == IF il = <<>> THEN <<>> ELSE Encode(Head(il)) \o EncodeAll(Tail(il))

Ins(kind, obj, px, py, a, b, c) ==
    [kind |-> kind, obj |-> obj, x |-> px, y |-> py, a |-> a, b |-> b, c |-> c]

----------------------------------------------------------------------------
(* build_map called on a cave of GridWidth x GridHeight *)

\* instructions inside the smallest grid, and three that are not: a row above
\* the grid, a cell past the buffer, a code without a conversion
Instructions ==
    {Ins(0, 16, 1, 1, None, None, None),
     Ins(1, 20, 1, 1, 3, 2, None),
     Ins(2, 2, 1, 1, 3, 3, 0),
     Ins(2, 8, 2, 1, 2, 2, 255),
     Ins(3, 3, 0, 0, 2, 2, None),
     Ins(0, 56, 1, -1, None, None, None),
     Ins(0, 37, 255, 0, None, None, None),
     Ins(0, 6, 2, 1, None, None, None)}

InstructionLists ==
    UNION {[1 .. k -> Instructions] : k \in 0 .. MaxInstructions}

\* what follows the last instruction: nothing, the sentinel, the sentinel and
\* more bytes, an instruction cut short
Tails == {<<>>, <<255>>, <<255, 16, 1, 3>>, <<16, 1>>}

\* randomseed, random_objects, random_probabilities of cave A, and the same
\* table under the randomseed of cave I
BuildHeaders ==
    {[randomseed |-> 10, random_objects |-> <<0, 16, 20, 0>>,
      random_probabilities |-> <<60, 50, 9, 0>>],
     [randomseed |-> 100, random_objects |-> <<0, 16, 20, 0>>,
      random_probabilities |-> <<60, 50, 9, 0>>]}

InitBuild ==
    /\ pc = "idle"
    /\ cave = NoCave
    /\ seeds = <<>>
    /\ fill_x = 0 /\ fill_y = 0 /\ n = 0
    /\ data = <<>>
    /\ returned = None
    /\ calls = <<>>
    /\ pre = <<>>
    /\ input = NoInput
    /\ decoded = <<>>
    /\ hist = <<>>
    /\ caveset = NoCaveSet
    /\ suspended = NoFrame
    /\ editor = NoEditor

\* a C64Cave with its generator fields set, handed to build_map
StartBuild ==
    /\ pc = "idle"
    /\ \E h \in BuildHeaders, il \in InstructionLists, t \in Tails :
          /\ cave' = [NewC64Cave(0, "", GridWidth, GridHeight) EXCEPT
                         !.codemap = [i \in 0 .. GridWidth * GridHeight - 1 |-> 0],
                         !.randomseed = h.randomseed,
                         !.random_objects = PyList(h.random_objects),
                         !.random_probabilities = PyList(h.random_probabilities)]
          /\ seeds' = InitialSeeds(seeds, h.randomseed)
          /\ data' = PyList(EncodeAll(il) \o t)
          /\ input' = [instrs |-> il, tail |-> t]
    /\ pc' = FirstPhase(cave')
    /\ fill_x' = 0 /\ fill_y' = 1 /\ n' = 0
    /\ calls' = <<>>
    /\ pre' = <<>>
    /\ UNCHANGED <<returned, decoded, hist,
                   caveset, suspended, editor>>

NextBuild ==
    \/ StartBuild
    \/ FillCell
    \/ SteelBoundary
    \/ Instruction
    \/ EndOfStream
    \/ Convert

SpecBuild == InitBuild /\ [][NextBuild]_vars

----------------------------------------------------------------------------
(* C64Cave.decode_from_lvl over the table of built-in records *)

\* the first 0x20 bytes of the records of caves A, Intermission 1, G and I
HeaderA ==
    <<1, 20, 10, 15, 10, 11, 12, 13, 14, 12, 12, 12, 12, 12, 150, 110,
      70, 40, 30, 8, 11, 9, 212, 32, 0, 16, 20, 0, 60, 50, 9, 0>>
HeaderIntermission1 ==
    <<17, 20, 30, 0, 10, 11, 12, 13, 14, 6, 6, 6, 6, 6, 10, 10,
      10, 10, 10, 14, 2, 9, 0, 0, 0, 20, 0, 0, 255, 9, 0, 0>>
HeaderG ==
    <<7, 75, 10, 20, 2, 7, 8, 10, 9, 15, 20, 25, 25, 25, 120, 120,
      120, 120, 120, 9, 10, 13, 0, 0, 0, 16, 8, 0, 100, 40, 2, 0>>
HeaderI ==
    <<9, 20, 5, 10, 100, 137, 140, 251, 51, 75, 75, 80, 85, 90, 150, 150,
      130, 130, 120, 8, 4, 9, 0, 0, 16, 20, 0, 0, 240, 120, 0, 0>>

\* (name, data) records in the layout of BD1CAVES: a header of the table and
\* an instruction stream for a cave of the model's size, ended by 0xFF
Levels ==
    <<[name |-> "A - Intro",
       data |-> PyList(HeaderA \o EncodeAll(<<Ins(1, 2, 1, 1, 3, 2, None),
                                               Ins(0, 37, 1, 2, None, None, None),
                                               Ins(0, 4, 3, 2, None, None, None)>>)
                       \o <<255>>)],
      [name |-> "Intermission 1",
       data |-> PyList(HeaderIntermission1
                       \o EncodeAll(<<Ins(2, 7, 0, 0, 3, 3, 0),
                                      Ins(0, 37, 1, 1, None, None, None),
                                      Ins(0, 4, 3, 1, None, None, None)>>)
                       \o <<255>>)],
      [name |-> "G - Amoeba",
       data |-> PyList(HeaderG \o EncodeAll(<<Ins(0, 58, 2, 1, None, None, None),
                                               Ins(0, 37, 1, 1, None, None, None),
                                               Ins(0, 4, 4, 2, None, None, None)>>)
                       \o <<255>>)],
      [name |-> "I - Greed",
       data |-> PyList(HeaderI \o EncodeAll(<<Ins(3, 2, 1, 1, 3, 2, None),
                                               Ins(0, 37, 2, 1, None, None, None)>>)
                       \o <<255>>)]>>

\* name.lower().startswith("intermission")
IsIntermission(name) ==
    name \in {"Intermission 1", "Intermission 2", "Intermission 3", "Intermission 4"}

\* data[start:]
Slice(l, start) == [i \in 0 .. PyLen(l) - start - 1 |-> l[i + start]]

InitDecode ==
    /\ pc = "idle"
    /\ cave = NoCave
    /\ seeds = <<>>
    /\ fill_x = 0 /\ fill_y = 0 /\ n = 0
    /\ data = <<>>
    /\ returned = None
    /\ calls = <<>>
    /\ pre = <<>>
    /\ input = NoInput
    /\ decoded = <<>>
    /\ hist = <<>>
    /\ caveset = NoCaveSet
    /\ suspended = NoFrame
    /\ editor = NoEditor

\* decode_from_lvl up to the call of build_map and its first statement, over
\* the records of a table in the layout of BD1CAVES
DecodeSized(table, width, height) ==
    /\ pc = "idle"
    /\ Len(decoded) < MaxDecodes
    /\ \E levelnumber \in 0 .. Len(table) + 1 :
          /\ decoded' = Append(decoded, levelnumber)
          /\ IF ~(0 < levelnumber /\ levelnumber <= Len(table))
             THEN /\ cave' = [NoCave EXCEPT !.exc = "AssertionError"]
                  /\ pc' = "error"
                  /\ UNCHANGED <<seeds, data>>
             ELSE LET name == table[levelnumber].name
                      d    == table[levelnumber].data
                  IN  /\ cave' = [NewC64Cave(d[0], name, width, height) EXCEPT
                                     !.codemap = [i \in 0 .. width * height - 1 |-> 0],
                                     !.intermission = IsIntermission(name),
                                     !.magicwall_millingtime = d[1],
                                     !.amoeba_slowgrowthtime = d[1],
                                     !.diamondvalue_normal = d[2],
                                     !.diamondvalue_extra = d[3],
                                     !.randomseed = d[4],
                                     !.diamonds_required = d[9],
                                     !.time = d[14],
                                     !.colors = [fg1 |-> d[19], fg2 |-> d[20], fg3 |-> 1,
                                                 amoeba |-> d[21], slime |-> 6,
                                                 screen |-> 0, border |-> 0],
                                     !.random_objects = PyList(<<d[24], d[25], d[26], d[27]>>),
                                     !.random_probabilities =
                                         PyList(<<d[28], d[29], d[30], d[31]>>),
                                     !.amoebafactor = "0.2273"]
                      /\ data' = Slice(d, 32)
                      /\ seeds' = InitialSeeds(seeds, d[4])
                      /\ pc' = FirstPhase(cave')
    /\ fill_x' = 0 /\ fill_y' = 1 /\ n' = 0
    /\ calls' = <<>>
    /\ pre' = <<>>
    /\ UNCHANGED <<returned, input, hist,
                   caveset, suspended, editor>>

\* the decoder on the grid of the bounds
DecodeFromLvl(table) == DecodeSized(table, GridWidth, GridHeight)

StartDecode == DecodeFromLvl(Levels)

\* the first outcome of each level number
Remember(h, levelnumber, outcome) ==
    IF levelnumber \in DOMAIN h THEN h ELSE h @@ (levelnumber :> outcome)

\* a return that leaves the colours as the header gave them
FinishWithoutRule ==
    /\ pc = "built"
    /\ cave' = cave
    /\ returned' = [exc |-> "none", cave |-> cave']
    /\ hist' = Remember(hist, decoded[Len(decoded)], returned')
    /\ pc' = "idle"
    /\ UNCHANGED <<seeds, fill_x, fill_y, n, data, calls, pre, input, decoded,
                   caveset, suspended, editor>>

\* build_map has returned: the amoeba colour rule, then return cave
Finish ==
    /\ pc = "built"
    /\ cave' = IF \E i \in DOMAIN cave.map : cave.map[i][1] = "AMOEBA"
               THEN [cave EXCEPT !.colors.fg3 = cave.colors.amoeba]
               ELSE cave
    /\ returned' = [exc |-> "none", cave |-> cave']
    /\ hist' = Remember(hist, decoded[Len(decoded)], returned')
    /\ pc' = "idle"
    /\ UNCHANGED <<seeds, fill_x, fill_y, n, data, calls, pre, input, decoded,
                   caveset, suspended, editor>>

\* an exception leaves decode_from_lvl: the caller gets no cave
Raise ==
    /\ pc = "error"
    /\ returned' = [exc |-> cave.exc]
    /\ hist' = Remember(hist, decoded[Len(decoded)], returned')
    /\ pc' = "idle"
    /\ UNCHANGED <<cave, seeds, fill_x, fill_y, n, data, calls, pre, input, decoded,
                   caveset, suspended, editor>>

Next ==
    \/ StartDecode
    \/ FillCell
    \/ SteelBoundary
    \/ Instruction
    \/ EndOfStream
    \/ Convert
    \/ Finish
    \/ Raise

Spec == InitDecode /\ [][Next]_vars

----------------------------------------------------------------------------
(* CaveSet.cave in its two modes *)

\* the table with the pair of the closed outbox used again for the hidden one
BDCFFOBJECTS_reused ==
    ("." :> <<"DIRT", "NOWHERE">>) @@ (" " :> <<"EMPTY", "NOWHERE">>)
    @@ ("w" :> <<"BRICK", "NOWHERE">>) @@ ("M" :> <<"MAGICWALL", "NOWHERE">>)
    @@ ("x" :> <<"HEXPANDINGWALL", "NOWHERE">>) @@ ("v" :> <<"VEXPANDINGWALL", "NOWHERE">>)
    @@ ("H" :> <<"OUTBOXCLOSED", "NOWHERE">>) @@ ("X" :> <<"OUTBOXCLOSED", "NOWHERE">>)
    @@ ("W" :> <<"STEEL", "NOWHERE">>)
    @@ ("Q" :> <<"FIREFLY", "LEFT">>) @@ ("q" :> <<"FIREFLY", "RIGHT">>)
    @@ ("O" :> <<"FIREFLY", "UP">>) @@ ("o" :> <<"FIREFLY", "DOWN">>)
    @@ ("c" :> <<"BUTTERFLY", "DOWN">>) @@ ("C" :> <<"BUTTERFLY", "LEFT">>)
    @@ ("b" :> <<"BUTTERFLY", "UP">>) @@ ("B" :> <<"BUTTERFLY", "RIGHT">>)
    @@ ("r" :> <<"BOULDER", "NOWHERE">>) @@ ("d" :> <<"DIAMOND", "NOWHERE">>)
    @@ ("P" :> <<"INBOXBLINKING", "NOWHERE">>) @@ ("a" :> <<"AMOEBA", "NOWHERE">>)
    @@ ("F" :> <<"VOODOO", "NOWHERE">>) @@ ("s" :> <<"SLIME", "NOWHERE">>)

\* BDCFF map symbols
BDCFFOBJECTS ==
    ("." :> <<"DIRT", "NOWHERE">>) @@ (" " :> <<"EMPTY", "NOWHERE">>)
    @@ ("w" :> <<"BRICK", "NOWHERE">>) @@ ("M" :> <<"MAGICWALL", "NOWHERE">>)
    @@ ("x" :> <<"HEXPANDINGWALL", "NOWHERE">>) @@ ("v" :> <<"VEXPANDINGWALL", "NOWHERE">>)
    @@ ("H" :> <<"OUTBOXHIDDEN", "NOWHERE">>) @@ ("X" :> <<"OUTBOXCLOSED", "NOWHERE">>)
    @@ ("W" :> <<"STEEL", "NOWHERE">>)
    @@ ("Q" :> <<"FIREFLY", "LEFT">>) @@ ("q" :> <<"FIREFLY", "RIGHT">>)
    @@ ("O" :> <<"FIREFLY", "UP">>) @@ ("o" :> <<"FIREFLY", "DOWN">>)
    @@ ("c" :> <<"BUTTERFLY", "DOWN">>) @@ ("C" :> <<"BUTTERFLY", "LEFT">>)
    @@ ("b" :> <<"BUTTERFLY", "UP">>) @@ ("B" :> <<"BUTTERFLY", "RIGHT">>)
    @@ ("r" :> <<"BOULDER", "NOWHERE">>) @@ ("d" :> <<"DIAMOND", "NOWHERE">>)
    @@ ("P" :> <<"INBOXBLINKING", "NOWHERE">>) @@ ("a" :> <<"AMOEBA", "NOWHERE">>)
    @@ ("F" :> <<"VOODOO", "NOWHERE">>) @@ ("s" :> <<"SLIME", "NOWHERE">>)

\* Cave.__init__: the defaults taken from bdcff.BdcffCave() are written None,
\* FALSE and "default", cave_from_bdcff overwrites each of them
NewCave(index, name, description, width, height) ==
    [index |-> index, name |-> name, description |-> description,
     author |-> "", www |-> "", date |-> "", intermission |-> FALSE,
     width |-> width, height |-> height, map |-> <<>>,
     magicwall_millingtime |-> None, amoeba_slowgrowthtime |-> None,
     diamondvalue_normal |-> None, diamondvalue_extra |-> None,
     diamonds_required |-> None, amoebafactor |-> "default",
     slime_permeability |-> None, wraparound |-> FALSE, time |-> None,
     colors |-> [fg1 |-> 8, fg2 |-> 11, fg3 |-> 1, amoeba |-> 5, slime |-> 6,
                 screen |-> 0, border |-> 0],
     exc |-> "none"]

\* for line in bdcff.map.maplines for x in line
RECURSIVE MapSymbols(_)
MapSymbols(maplines) ==
    IF maplines = <<>> THEN <<>> ELSE Head(maplines) \o MapSymbols(Tail(maplines))

\* type(color) is int
IsPyInt(color) == color \in Int

\* the screen and border slots: a negative integer becomes 0
ClampColor(color) == IF IsPyInt(color) THEN (IF color >= 0 THEN color ELSE 0) ELSE color

\* [BDCFFOBJECTS[x] for line in bdcff.map.maplines for x in line]
BdcffMap(maplines) ==
    LET symbols == MapSymbols(maplines)
    IN  IF \E k \in 1 .. Len(symbols) : symbols[k] \notin DOMAIN BDCFFOBJECTS
        THEN [exc |-> "KeyError", map |-> <<>>]
        ELSE [exc |-> "none",
              map |-> PyList([k \in 1 .. Len(symbols) |-> BDCFFOBJECTS[symbols[k]]])]

\* CaveSet.cave_from_bdcff: the cave it returns, or the exception it raises
cave_from_bdcff(self, levelnumber, bdcff) ==
    LET c == NewCave(levelnumber, bdcff.name, bdcff.description, bdcff.width, bdcff.height)
        m == BdcffMap(bdcff.map.maplines)
    IN  [c EXCEPT
            !.www = self.bdcff_caves.www,
            !.author = self.bdcff_caves.author,
            !.date = self.bdcff_caves.date,
            !.intermission = bdcff.intermission,
            !.wraparound = bdcff.wraparound,
            !.magicwall_millingtime = bdcff.magicwalltime,
            !.amoeba_slowgrowthtime = bdcff.amoebatime,
            !.diamondvalue_normal = bdcff.diamondvalue_normal,
            !.diamondvalue_extra = bdcff.diamondvalue_extra,
            !.diamonds_required = bdcff.diamonds_required,
            !.amoebafactor = bdcff.amoebafactor,
            !.time = bdcff.cavetime,
            !.slime_permeability = bdcff.slimepermeability,
            !.colors = [fg1 |-> bdcff.color_fg1, fg2 |-> bdcff.color_fg2,
                        fg3 |-> bdcff.color_fg3, amoeba |-> bdcff.color_amoeba,
                        slime |-> bdcff.color_slime,
                        screen |-> ClampColor(bdcff.color_screen),
                        border |-> ClampColor(bdcff.color_border)],
            !.map = m.map,
            !.exc = m.exc]

\* self.bdcff_caves.caves[levelnumber - 1]: a sequence indexed as a Python list
CaveOfList(caves, levelnumber) ==
    LET i == levelnumber - 1
    IN  IF i >= Len(caves) \/ i < -Len(caves) THEN [exc |-> "IndexError"]
        ELSE [exc |-> "none", cave |-> caves[PyIndex(i, Len(caves)) + 1]]

\* a BdcffCave as the reader of the structured format hands it over
BdcffCave(name, color_fg3, color_amoeba, color_screen, maplines) ==
    [name |-> name, description |-> "", width |-> Len(maplines[1]), height |-> Len(maplines),
     intermission |-> FALSE, wraparound |-> FALSE, magicwalltime |-> 20, amoebatime |-> 20,
     diamondvalue_normal |-> 10, diamondvalue_extra |-> 20, diamonds_required |-> 1,
     amoebafactor |-> "0.2273", cavetime |-> 200, slimepermeability |-> 1,
     color_fg1 |-> 8, color_fg2 |-> 11, color_fg3 |-> color_fg3,
     color_amoeba |-> color_amoeba, color_slime |-> 6,
     color_screen |-> color_screen, color_border |-> 0,
     map |-> [maplines |-> maplines]]

\* a parsed file of three caves: one with an amoeba, one whose map holds a
\* symbol that is not a BDCFF symbol, one with a negative screen colour
BdcffFile ==
    [name |-> "playtest", author |-> "somebody", www |-> "", date |-> "2017",
     caves |-> <<BdcffCave("colony", 1, 5, 0,
                           <<<<"W", "W", "W", "W">>, <<"P", "a", ".", "X">>,
                             <<"W", "W", "W", "W">>>>),
                 BdcffCave("unknown", 1, 5, 0,
                           <<<<"W", "W", "W", "W">>, <<"P", "?", "d", "X">>,
                             <<"W", "W", "W", "W">>>>),
                 BdcffCave("plain", 3, 3, -1,
                           <<<<"W", "W", "W", "W">>, <<"P", "r", "d", "X">>,
                             <<"W", "W", "W", "W">>>>)>>]

\* a table of other records: the stream of the second stops inside an
\* instruction, the third draws a code that has no conversion, the fourth
\* draws a falling boulder (0x12) among the boulders (0x10) of the fill
OtherLevels ==
    <<Levels[1],
      [name |-> "B - Rooms",
       data |-> PyList(HeaderA \o EncodeAll(<<Ins(0, 37, 1, 1, None, None, None)>>)
                       \o <<66, 1, 3, 3>>)],
      [name |-> "C - Maze",
       data |-> PyList(HeaderA \o EncodeAll(<<Ins(0, 37, 1, 1, None, None, None),
                                               Ins(0, 6, 2, 1, None, None, None)>>)
                       \o <<255>>)],
      [name |-> "D - Butterflies",
       data |-> PyList(HeaderI \o EncodeAll(<<Ins(0, 18, 2, 1, None, None, None),
                                               Ins(0, 37, 1, 1, None, None, None)>>)
                       \o <<255>>)]>>

\* CaveSet.__init__: built-in mode over a table, or BDCFF mode over a parsed file
CaveSetBuiltin(table, caveclass) ==
    [mode |-> "builtin", caveclass |-> caveclass, BD1CAVES |-> table,
     num_caves |-> Len(table)]

CaveSetBdcff(bdcff_caves, caveclass) ==
    [mode |-> "bdcff", caveclass |-> caveclass, bdcff_caves |-> bdcff_caves,
     num_caves |-> Len(bdcff_caves.caves)]

\* caveclass is written by its name, "None" when no class was given
CaveSets ==
    {CaveSetBuiltin(Levels, "None"), CaveSetBuiltin(OtherLevels, "None"),
     CaveSetBuiltin(Levels, "Cave"), CaveSetBdcff(BdcffFile, "None")}

InitCaveSet ==
    /\ pc = "idle"
    /\ cave = NoCave
    /\ seeds = <<>>
    /\ fill_x = 0 /\ fill_y = 0 /\ n = 0
    /\ data = <<>>
    /\ returned = None
    /\ calls = <<>>
    /\ pre = <<>>
    /\ input = NoInput
    /\ decoded = <<>>
    /\ hist = <<>>
    /\ caveset \in CaveSets
    /\ suspended = NoFrame
    /\ editor = NoEditor

\* cave() in built-in mode: a custom cave class is refused, else decode_from_lvl
CaveBuiltin ==
    /\ caveset.mode = "builtin"
    /\ IF caveset.caveclass # "None"
       THEN /\ pc = "idle"
            /\ Len(decoded) < MaxDecodes
            /\ \E levelnumber \in 0 .. caveset.num_caves + 1 :
                  decoded' = Append(decoded, levelnumber)
            /\ cave' = [NoCave EXCEPT !.exc = "TypeError"]
            /\ pc' = "error"
            /\ calls' = <<>>
            /\ UNCHANGED <<seeds, fill_x, fill_y, n, data, returned, pre, input, hist,
                           caveset, suspended, editor>>
       ELSE DecodeFromLvl(caveset.BD1CAVES)

\* cave() in BDCFF mode: the cave of the list, handed to cave_from_bdcff
CaveBdcff ==
    /\ caveset.mode = "bdcff"
    /\ pc = "idle"
    /\ Len(decoded) < MaxDecodes
    /\ \E levelnumber \in 0 .. caveset.num_caves + 1 :
          LET b == CaveOfList(caveset.bdcff_caves.caves, levelnumber)
              c == cave_from_bdcff(caveset, levelnumber, b.cave)
              outcome == IF b.exc # "none" THEN [exc |-> b.exc]
                         ELSE IF c.exc # "none" THEN [exc |-> c.exc]
                         ELSE [exc |-> "none", cave |-> c]
          IN  /\ decoded' = Append(decoded, levelnumber)
              /\ returned' = outcome
              /\ hist' = Remember(hist, levelnumber, outcome)
    /\ cave' = NoCave
    /\ calls' = <<>>
    /\ UNCHANGED <<pc, seeds, fill_x, fill_y, n, data, pre, input, caveset, suspended, editor>>

NextCaveSet ==
    \/ CaveBuiltin
    \/ CaveBdcff
    \/ FillCell
    \/ SteelBoundary
    \/ Instruction
    \/ EndOfStream
    \/ Convert
    \/ Finish
    \/ Raise

SpecCaveSet == InitCaveSet /\ [][NextCaveSet]_vars

----------------------------------------------------------------------------
(* a map line read by cave_from_bdcff and written by the editor's save *)

\* the keys of BDCFFOBJECTS in the order of the dict
SymbolOrder ==
    <<".", " ", "w", "M", "x", "v", "H", "X", "W", "Q", "q", "O", "o", "c", "C", "b", "B",
      "r", "d", "P", "a", "F", "s">>

\* BDCFFSYMBOL = {(obj, direction): symbol for symbol, (obj, direction) in
\* BDCFFOBJECTS.items()}: of two symbols with the same pair the later one stays
BDCFFSYMBOL ==
    [p \in {BDCFFOBJECTS[x] : x \in DOMAIN BDCFFOBJECTS} |->
        SymbolOrder[CHOOSE k \in 1 .. Len(SymbolOrder) :
                       /\ BDCFFOBJECTS[SymbolOrder[k]] = p
                       /\ \A j \in 1 .. Len(SymbolOrder) :
                             BDCFFOBJECTS[SymbolOrder[j]] = p => j <= k]]

\* the loops of save over the cells of the cave: one string per row
SaveMaplines(c) ==
    IF \E i \in DOMAIN c.map : c.map[i] \notin DOMAIN BDCFFSYMBOL
    THEN [exc |-> "KeyError"]
    ELSE [exc |-> "none",
          maplines |-> [y \in 1 .. c.height |->
                           [x \in 1 .. c.width |->
                               BDCFFSYMBOL[c.map[(x - 1) + c.width * (y - 1)]]]]]

\* the files of one cave whose map is one line of LineLength symbols
LineFiles ==
    {[name |-> "playtest", author |-> "", www |-> "", date |-> "",
      caves |-> <<BdcffCave("line", 1, 5, 0, <<line>>)>>] :
        line \in [1 .. LineLength -> DOMAIN BDCFFOBJECTS]}

InitSymbols ==
    /\ pc = "idle"
    /\ cave = NoCave
    /\ seeds = <<>>
    /\ fill_x = 0 /\ fill_y = 0 /\ n = 0
    /\ data = <<>>
    /\ returned = None
    /\ calls = <<>>
    /\ pre = <<>>
    /\ input = NoInput
    /\ decoded = <<>>
    /\ hist = <<>>
    /\ caveset \in {CaveSetBdcff(f, "Cave") : f \in LineFiles}
    /\ suspended = NoFrame
    /\ editor = NoEditor

\* the editor's load: cave = caveset.cave(cavenum)
LoadCave ==
    /\ pc = "idle"
    /\ LET b == CaveOfList(caveset.bdcff_caves.caves, 1)
       IN  cave' = IF b.exc # "none" THEN [NoCave EXCEPT !.exc = b.exc]
                   ELSE cave_from_bdcff(caveset, 1, b.cave)
    /\ pc' = IF cave'.exc = "none" THEN "loaded" ELSE "error"
    /\ decoded' = <<1>>
    /\ UNCHANGED <<seeds, fill_x, fill_y, n, data, returned, calls, pre, input, hist,
                   caveset, suspended, editor>>

\* the editor's save: the map lines it writes for the cave
SaveCave ==
    /\ pc = "loaded"
    /\ returned' = SaveMaplines(cave)
    /\ pc' = "saved"
    /\ UNCHANGED <<cave, seeds, fill_x, fill_y, n, data, calls, pre, input, decoded, hist,
                   caveset, suspended, editor>>

NextSymbols == LoadCave \/ SaveCave

SpecSymbols == InitSymbols /\ [][NextSymbols]_vars

----------------------------------------------------------------------------
(* Cave.resize *)

\* the elements of a Python list as a sequence
SeqOf(l) == [i \in 1 .. PyLen(l) |-> l[i - 1]]

\* a bound of a slice, as Python places it in a list of length len
SliceBound(i, len) ==
    IF i < 0 THEN (IF len + i < 0 THEN 0 ELSE len + i)
    ELSE (IF i > len THEN len ELSE i)

\* s[start:stop] on a sequence
PySlice(s, start, stop) ==
    LET a == SliceBound(start, Len(s))
        b == SliceBound(stop, Len(s))
    IN  IF a < b THEN SubSeq(s, a + 1, b) ELSE <<>>

\* [(objects.EMPTY, Direction.NOWHERE)] * target_width
Filler(target_width) == [i \in 1 .. target_width |-> <<"EMPTY", "NOWHERE">>]

\* for y in range(k): map2.extend(filler)
RECURSIVE FillerRows(_, _)
FillerRows(filler, k) == IF k <= 0 THEN <<>> ELSE filler \o FillerRows(filler, k - 1)

\* a left margin rounded up instead of down
LeftMarginCeil(c, target_width) == -((c.width - target_width) \div 2)

\* math.floor((target_width - self.width) / 2)
LeftMargin(c, target_width) == (target_width - c.width) \div 2

\* math.ceil((target_width - self.width) / 2)
RightMargin(c, target_width) == -((c.width - target_width) \div 2)

\* the loop over the rows of the cave, from row y on
RECURSIVE CenteredRows(_, _, _, _)
CenteredRows(c, filler, target_width, y) ==
    IF y >= c.height THEN <<>>
    ELSE PySlice(filler, 0, LeftMargin(c, target_width))
         \o PySlice(SeqOf(c.map), y * c.width, y * c.width + c.width)
         \o PySlice(filler, 0, RightMargin(c, target_width))
         \o CenteredRows(c, filler, target_width, y + 1)

\* Cave.resize
resize(c, target_width, target_height) ==
    LET filler == Filler(target_width)
        map2   == FillerRows(filler, (target_height - c.height) \div 2)
                  \o CenteredRows(c, filler, target_width, 0)
                  \o FillerRows(filler, -((c.height - target_height) \div 2))
    IN  IF Len(map2) # target_width * target_height
        THEN [c EXCEPT !.exc = "AssertionError"]
        ELSE [c EXCEPT !.width = target_width, !.height = target_height,
                       !.map = PyList(map2)]

\* a cave of width x height cells, none of them empty, neighbours different
PatternCave(width, height) ==
    [NewCave(1, "", "", width, height) EXCEPT
        !.map = [i \in 0 .. width * height - 1 |->
                    BDCFFOBJECTS[SymbolOrder[3 + (i % 21)]]]]

\* the caves resize is called on, and the target sizes
ResizeCaves ==
    {PatternCave(w, h) : w \in 1 .. MaxSide, h \in 1 .. MaxSide} \cup {PatternCave(10, 8)}

TargetSizes == (-MaxSide .. MaxSide + 2) \cup {10, 14}

InitResize ==
    /\ pc = "idle"
    /\ cave \in ResizeCaves
    /\ seeds = <<>>
    /\ fill_x = 0 /\ fill_y = 0 /\ n = 0
    /\ data = <<>>
    /\ returned = None
    /\ calls = <<>>
    /\ pre = <<>>
    /\ input = NoInput
    /\ decoded = <<>>
    /\ hist = <<>>
    /\ caveset = NoCaveSet
    /\ suspended = NoFrame
    /\ editor = NoEditor

\* a call of resize: the cave is changed in place, or the assertion fails
CallResize ==
    /\ pc = "idle"
    /\ \E target_width \in TargetSizes, target_height \in TargetSizes :
          /\ cave' = resize(cave, target_width, target_height)
          /\ calls' = <<[op |-> "resize", target_width |-> target_width,
                         target_height |-> target_height]>>
    /\ pc' = IF cave'.exc = "none" THEN "done" ELSE "error"
    /\ pre' = cave
    /\ UNCHANGED <<seeds, fill_x, fill_y, n, data, returned, input, decoded, hist,
                   caveset, suspended, editor>>

NextResize == CallResize

SpecResize == InitResize /\ [][NextResize]_vars

----------------------------------------------------------------------------
(* two callers of CaveSet.cave whose calls overlap, and what a caller does   *)
(* with the cave it got                                                      *)

\* the locals of the call that is running: the cave object it constructs, the
\* seed list and the loop variables of build_map, the data it was given; with
\* them the histories kept per call
Frame ==
    [pc |-> pc, cave |-> cave, seeds |-> seeds, fill_x |-> fill_x, fill_y |-> fill_y,
     n |-> n, data |-> data, calls |-> calls, pre |-> pre, decoded |-> decoded,
     input |-> input]

\* a caller that has not called yet
IdleFrame ==
    [pc |-> "idle", cave |-> NoCave, seeds |-> <<>>, fill_x |-> 0, fill_y |-> 0,
     n |-> 0, data |-> <<>>, calls |-> <<>>, pre |-> <<>>, decoded |-> <<>>,
     input |-> [overlapped |-> FALSE]]

\* a seed list kept in one place for all calls: the call that is resumed finds
\* what the other call left
ResumedSeedsGlobal(running, kept) == running

\* seeds = [0, self.randomseed] is a local of build_map: the call that is
\* resumed finds its own list
ResumedSeeds(running, kept) == kept

\* a catalog of two built-in caves: one without amoeba, one with
PairOfLevels == <<Levels[1], Levels[3]>>

InitShared ==
    /\ pc = "idle"
    /\ cave = NoCave
    /\ seeds = <<>>
    /\ fill_x = 0 /\ fill_y = 0 /\ n = 0
    /\ data = <<>>
    /\ returned = None
    /\ calls = <<>>
    /\ pre = <<>>
    /\ input = [overlapped |-> FALSE]
    /\ decoded = <<>>
    /\ hist = <<>>
    /\ caveset \in {CaveSetBuiltin(PairOfLevels, "None"), CaveSetBdcff(BdcffFile, "None")}
    /\ suspended = IdleFrame
    /\ editor = NoEditor

\* each caller calls cave() once
CallCave ==
    /\ decoded = <<>>
    /\ (CaveBuiltin \/ CaveBdcff)

\* the running call is suspended and the other caller runs; input.overlapped
\* records that both calls were under way at that moment
Switch ==
    LET both == pc # "idle" /\ suspended.pc # "idle"
    IN  /\ suspended' = [Frame EXCEPT !.input.overlapped = @ \/ both]
        /\ pc' = suspended.pc
        /\ cave' = suspended.cave
        /\ seeds' = ResumedSeeds(seeds, suspended.seeds)
        /\ fill_x' = suspended.fill_x
        /\ fill_y' = suspended.fill_y
        /\ n' = suspended.n
        /\ data' = suspended.data
        /\ calls' = suspended.calls
        /\ pre' = suspended.pre
        /\ decoded' = suspended.decoded
        /\ input' = [suspended.input EXCEPT !.overlapped = @ \/ both]
        /\ UNCHANGED <<returned, hist, caveset, editor>>

\* what a caller does with its cave: a cell is overwritten, the colours are
\* changed, the cave is resized
Modifications(c) ==
    {[c EXCEPT !.map[0] = <<"EMPTY", "NOWHERE">>],
     [c EXCEPT !.colors.fg3 = 0, !.colors.amoeba = 0],
     resize(c, c.width + 2, c.height + 1)}

\* the caller of the last call that returned a cave modifies that cave
ModifyReturned ==
    /\ \E k \in DOMAIN hist : hist[k] = returned
    /\ returned.exc = "none"
    /\ \E c \in Modifications(returned.cave) : returned' = [returned EXCEPT !.cave = c]
    /\ UNCHANGED <<pc, cave, seeds, fill_x, fill_y, n, data, calls, pre, input, decoded,
                   hist, caveset, suspended, editor>>

NextShared ==
    \/ CallCave
    \/ FillCell
    \/ SteelBoundary
    \/ Instruction
    \/ EndOfStream
    \/ Convert
    \/ Finish
    \/ Raise
    \/ Switch
    \/ ModifyReturned

SpecShared == InitShared /\ [][NextShared]_vars

----------------------------------------------------------------------------
(* the generator called with a seed list of any length and content *)

\* the entries tried in a seed list: bytes, and integers next to the byte range
SeedValues == {-1, 0, 1, 255, 256}

RECURSIVE ListsUpTo(_, _)
ListsUpTo(values, len) ==
    IF len = 0 THEN {<<>>}
    ELSE LET shorter == ListsUpTo(values, len - 1)
         IN  shorter \cup {Append(l, v) : l \in {t \in shorter : Len(t) = len - 1}, v \in values}

InitRandomAny ==
    /\ pc = "idle"
    /\ seeds \in {PyList(l) : l \in ListsUpTo(SeedValues, MaxSeeds)}
    /\ cave = NoCave
    /\ fill_x = 0 /\ fill_y = 0 /\ n = 0
    /\ data = <<>>
    /\ returned = None
    /\ calls = <<>>
    /\ pre = <<>>
    /\ input = NoInput
    /\ decoded = <<>>
    /\ hist = <<>>
    /\ caveset = NoCaveSet
    /\ suspended = NoFrame
    /\ editor = NoEditor

SpecRandomAny == InitRandomAny /\ [][NextRandom]_vars

----------------------------------------------------------------------------
(* Palette: the constructor and the rgb_* accessors *)

\* colorpalette = colorpalette_pepto, the 16 colours as integers
colorpalette ==
    PyList(<<0, 16777215, 8467256, 7720648, 9321623, 5680205, 3026075, 15593841,
             9326633, 5584896, 12872817, 4868682, 8092539, 11141023, 7368171, 11711154>>)

\* a Python int and a Python str (a sequence of characters) as slot values
PyInt(i) == [type |-> "int", int |-> i, str |-> <<>>]
PyStr(s) == [type |-> "str", int |-> 0, str |-> s]

\* the value of a character as a digit, 16 when it is none
DigitValue(ch) ==
    CASE ch = "0" -> 0 [] ch = "1" -> 1 [] ch = "2" -> 2 [] ch = "3" -> 3
      [] ch = "4" -> 4 [] ch = "5" -> 5 [] ch = "6" -> 6 [] ch = "7" -> 7
      [] ch = "8" -> 8 [] ch = "9" -> 9 [] ch = "a" -> 10 [] ch = "b" -> 11
      [] ch = "c" -> 12 [] ch = "d" -> 13 [] ch = "e" -> 14 [] ch = "f" -> 15
      [] OTHER -> 16

\* the digits of s in a base, most significant first, added to acc
RECURSIVE DigitsValue(_, _, _)
DigitsValue(s, base, acc) ==
    IF s = <<>> THEN acc
    ELSE DigitsValue(Tail(s), base, acc * base + DigitValue(Head(s)))

\* int(s, base) on a string of sign and digit characters
int(s, base) ==
    LET signed == s # <<>> /\ Head(s) \in {"-", "+"}
        digits == IF signed THEN Tail(s) ELSE s
    IN  IF digits = <<>> \/ \E k \in 1 .. Len(digits) : DigitValue(digits[k]) >= base
        THEN [exc |-> "ValueError", value |-> 0]
        ELSE [exc |-> "none",
              value |-> IF signed /\ Head(s) = "-" THEN 0 - DigitsValue(digits, base, 0)
                        ELSE DigitsValue(digits, base, 0)]

\* color.startswith('#')
StartsWithHash(color) == color.str # <<>> /\ Head(color.str) = "#"

\* 0 <= c <= len(colorpalette)
InRange(c) == 0 <= c /\ c <= PyLen(colorpalette)

\* Palette._color
Palette_color(color) ==
    IF color.type = "int" THEN [exc |-> "none", value |-> color]
    ELSE IF StartsWithHash(color) THEN [exc |-> "none", value |-> color]
    ELSE LET c == int(color.str, 10)
         IN  IF c.exc # "none" THEN [exc |-> c.exc, value |-> color]
             ELSE IF InRange(c.value) THEN [exc |-> "none", value |-> PyInt(c.value)]
             ELSE [exc |-> "ValueError", value |-> color]

\* colorpalette[i]: a negative i counts from the end
TableEntry(i) ==
    IF i >= PyLen(colorpalette) \/ i < -PyLen(colorpalette)
    THEN [exc |-> "IndexError", value |-> 0]
    ELSE [exc |-> "none", value |-> colorpalette[PyIndex(i, PyLen(colorpalette))]]

\* Palette._rgb
Palette_rgb(color) ==
    IF color.type = "int" THEN TableEntry(color.int)
    ELSE IF StartsWithHash(color) THEN int(Tail(color.str), 16)
    ELSE LET c == int(color.str, 10)
         IN  IF c.exc # "none" THEN c ELSE TableEntry(c.value)

Slots == {"fg1", "fg2", "fg3", "amoeba", "slime", "screen", "border"}

\* the defaults of Palette.__init__
DefaultColors ==
    [fg1 |-> PyInt(8), fg2 |-> PyInt(11), fg3 |-> PyInt(1), amoeba |-> PyInt(5),
     slime |-> PyInt(6), screen |-> PyInt(0), border |-> PyInt(0)]

\* the values handed to the constructor for one slot
SlotValues ==
    {PyInt(i) : i \in {-17, -1, 0, 8, 15, 16}}
    \cup {PyStr(s) : s \in {<<"0">>, <<"7">>, <<"1", "5">>, <<"1", "6">>, <<"1", "7">>,
                           <<"-", "1">>, <<>>, <<"f">>, <<"#">>,
                           <<"#", "f", "f">>, <<"#", "8", "e", "5", "0", "2", "9">>,
                           <<"#", "1", "6">>}}

InitPalette ==
    /\ pc = "idle"
    /\ cave = NoCave
    /\ seeds = <<>>
    /\ fill_x = 0 /\ fill_y = 0 /\ n = 0
    /\ data = <<>>
    /\ returned = None
    /\ calls = <<>>
    /\ pre = <<>>
    /\ input = NoInput
    /\ decoded = <<>>
    /\ hist = <<>>
    /\ caveset = NoCaveSet
    /\ suspended = NoFrame
    /\ editor = NoEditor

\* Palette(...) with one slot given and the others left at their defaults
ConstructPalette ==
    /\ pc = "idle"
    /\ \E slot \in Slots, color \in SlotValues :
          LET r == Palette_color(color)
          IN  /\ input' = [slot |-> slot, color |-> color]
              /\ returned' = IF r.exc = "none"
                             THEN [exc |-> "none",
                                   palette |-> [DefaultColors EXCEPT ![slot] = r.value]]
                             ELSE [exc |-> r.exc]
              /\ pc' = IF r.exc = "none" THEN "constructed" ELSE "error"
    /\ UNCHANGED <<cave, seeds, fill_x, fill_y, n, data, calls, pre, decoded, hist,
                   caveset, suspended, editor>>

\* one of the seven rgb_* properties is read
ResolveSlot ==
    /\ pc = "constructed"
    /\ \E slot \in Slots :
          LET r == Palette_rgb(returned.palette[slot])
          IN  /\ calls' = <<[op |-> "rgb", slot |-> slot, exc |-> r.exc, rgb |-> r.value]>>
              /\ pc' = IF r.exc = "none" THEN "resolved" ELSE "error"
    /\ UNCHANGED <<cave, seeds, fill_x, fill_y, n, data, returned, pre, input, decoded,
                   hist, caveset, suspended, editor>>

NextPalette ==
    \/ ConstructPalette
    \/ ResolveSlot

SpecPalette == InitPalette /\ [][NextPalette]_vars

----------------------------------------------------------------------------
(* the instruction loop of build_map entered on any first byte *)

\* what follows the first byte: operands inside the grid and the sentinel, or
\* operands followed by a rectangle that leaves the buffer
OperandTails == {<<1, 3, 1, 1, 1, 255>>, <<1, 3, 192, 1, 1, 130, 1, 3>>}

\* build_map at the head of its instruction loop, the grid still blank
InitInstr ==
    /\ pc = "instr"
    /\ cave = [NewC64Cave(0, "", GridWidth, GridHeight) EXCEPT
                  !.codemap = [i \in 0 .. GridWidth * GridHeight - 1 |-> 0]]
    /\ seeds = <<>>
    /\ fill_x = 0 /\ fill_y = 0 /\ n = 0
    /\ \E b \in 0 .. 255, t \in OperandTails : data = PyList(<<b>> \o t)
    /\ returned = None
    /\ calls = <<>>
    /\ pre = <<>>
    /\ input = NoInput
    /\ decoded = <<>>
    /\ hist = <<>>
    /\ caveset = NoCaveSet
    /\ suspended = NoFrame
    /\ editor = NoEditor

NextInstr ==
    \/ Instruction
    \/ EndOfStream

SpecInstr == InitInstr /\ [][NextInstr]_vars

----------------------------------------------------------------------------
(* decode_from_lvl over the built-in table at the size the code gives a cave *)

\* the 20 records of BD1CAVES: the name and the data of each (the description
\* is not read by the decoder's arithmetic)
BD1CAVES ==
    <<
     [name |-> "A - Intro",
      data |-> PyList(<<
                      1, 20, 10, 15, 10, 11, 12, 13, 14, 12, 12, 12, 12, 12,
                      150, 110, 70, 40, 30, 8, 11, 9, 212, 32, 0, 16, 20, 0,
                      60, 50, 9, 0, 66, 1, 9, 30, 2, 66, 9, 16, 30, 2, 37, 3,
                      4, 4, 38, 18, 255>>)],
     [name |-> "B - Rooms",
      data |-> PyList(<<
                      2, 20, 20, 50, 3, 0, 1, 87, 88, 10, 12, 9, 13, 10, 150,
                      110, 70, 70, 70, 10, 4, 9, 0, 0, 0, 16, 20, 8, 60, 50,
                      9, 2, 66, 1, 8, 38, 2, 66, 1, 15, 38, 2, 66, 8, 3, 20,
                      4, 66, 16, 3, 20, 4, 66, 24, 3, 20, 4, 66, 32, 3, 20, 4,
                      64, 1, 5, 38, 2, 64, 1, 11, 38, 2, 64, 1, 18, 38, 2, 64,
                      20, 3, 20, 4, 37, 18, 21, 4, 18, 22, 255>>)],
     [name |-> "C - Maze",
      data |-> PyList(<<
                      3, 0, 15, 0, 0, 50, 54, 52, 55, 24, 23, 24, 23, 21, 150,
                      100, 90, 80, 70, 9, 8, 9, 4, 0, 2, 16, 20, 0, 100, 50,
                      9, 0, 37, 3, 4, 4, 39, 20, 255>>)],
     [name |-> "D - Butterflies",
      data |-> PyList(<<
                      4, 20, 5, 20, 0, 110, 112, 115, 119, 36, 36, 36, 36, 36,
                      120, 100, 80, 60, 50, 4, 8, 9, 0, 0, 16, 0, 0, 0, 20, 0,
                      0, 0, 37, 1, 3, 4, 38, 22, 129, 8, 10, 4, 4, 0, 48, 10,
                      11, 129, 16, 10, 4, 4, 0, 48, 18, 11, 129, 24, 10, 4, 4,
                      0, 48, 26, 11, 129, 32, 10, 4, 4, 0, 48, 34, 11, 255>>)],
     [name |-> "Intermission 1",
      data |-> PyList(<<
                      17, 20, 30, 0, 10, 11, 12, 13, 14, 6, 6, 6, 6, 6, 10,
                      10, 10, 10, 10, 14, 2, 9, 0, 0, 0, 20, 0, 0, 255, 9, 0,
                      0, 135, 0, 2, 40, 22, 7, 135, 0, 2, 20, 12, 0, 50, 10,
                      12, 16, 10, 4, 1, 10, 5, 37, 3, 5, 4, 18, 12, 255>>)],
     [name |-> "E - Guards",
      data |-> PyList(<<
                      5, 20, 50, 90, 0, 0, 0, 0, 0, 4, 5, 6, 7, 8, 150, 120,
                      90, 60, 30, 9, 10, 9, 0, 0, 0, 0, 0, 0, 0, 0, 0, 0, 37,
                      1, 3, 4, 39, 22, 128, 8, 10, 3, 3, 0, 128, 16, 10, 3, 3,
                      0, 128, 24, 10, 3, 3, 0, 128, 32, 10, 3, 3, 0, 20, 9,
                      12, 8, 10, 10, 20, 17, 12, 8, 18, 10, 20, 25, 12, 8, 26,
                      10, 20, 33, 12, 8, 34, 10, 128, 8, 16, 3, 3, 0, 128, 16,
                      16, 3, 3, 0, 128, 24, 16, 3, 3, 0, 128, 32, 16, 3, 3, 0,
                      20, 9, 18, 8, 10, 16, 20, 17, 18, 8, 18, 16, 20, 25, 18,
                      8, 26, 16, 20, 33, 18, 8, 34, 16, 255>>)],
     [name |-> "F - Firefly dens",
      data |-> PyList(<<
                      6, 20, 40, 60, 0, 20, 21, 22, 23, 4, 6, 7, 8, 8, 150,
                      120, 100, 90, 80, 14, 10, 9, 0, 0, 16, 0, 0, 0, 50, 0,
                      0, 0, 130, 1, 3, 10, 4, 0, 130, 1, 6, 10, 4, 0, 130, 1,
                      9, 10, 4, 0, 130, 1, 12, 10, 4, 0, 65, 10, 3, 13, 4, 20,
                      3, 5, 8, 4, 5, 20, 3, 8, 8, 4, 8, 20, 3, 11, 8, 4, 11,
                      20, 3, 14, 8, 4, 14, 130, 29, 3, 10, 4, 0, 130, 29, 6,
                      10, 4, 0, 130, 29, 9, 10, 4, 0, 130, 29, 12, 10, 4, 0,
                      65, 29, 3, 13, 4, 20, 36, 5, 8, 35, 5, 20, 36, 8, 8, 35,
                      8, 20, 36, 11, 8, 35, 11, 20, 36, 14, 8, 35, 14, 37, 3,
                      20, 4, 38, 20, 255>>)],
     [name |-> "G - Amoeba",
      data |-> PyList(<<
                      7, 75, 10, 20, 2, 7, 8, 10, 9, 15, 20, 25, 25, 25, 120,
                      120, 120, 120, 120, 9, 10, 13, 0, 0, 0, 16, 8, 0, 100,
                      40, 2, 0, 66, 1, 7, 12, 2, 66, 28, 5, 11, 2, 122, 19,
                      21, 2, 2, 20, 4, 6, 20, 4, 14, 20, 4, 22, 20, 34, 4, 20,
                      34, 12, 20, 34, 22, 37, 20, 3, 4, 39, 7, 255>>)],
     [name |-> "H - Enchanted wall",
      data |-> PyList(<<
                      8, 20, 10, 20, 1, 3, 4, 5, 6, 10, 15, 20, 20, 20, 120,
                      110, 100, 90, 80, 2, 14, 9, 0, 0, 0, 16, 8, 0, 90, 50,
                      2, 0, 20, 4, 6, 20, 34, 4, 20, 34, 12, 4, 0, 5, 37, 20,
                      3, 66, 1, 7, 12, 2, 66, 1, 15, 12, 2, 66, 28, 5, 11, 2,
                      66, 28, 13, 11, 2, 67, 14, 17, 8, 2, 20, 12, 16, 0, 14,
                      18, 20, 19, 18, 65, 14, 15, 8, 2, 255>>)],
     [name |-> "Intermission 2",
      data |-> PyList(<<
                      18, 20, 10, 0, 10, 11, 12, 13, 14, 16, 16, 16, 16, 16,
                      15, 15, 15, 15, 15, 6, 15, 9, 0, 0, 0, 0, 0, 0, 0, 0, 0,
                      0, 135, 0, 2, 40, 22, 7, 135, 0, 2, 20, 12, 1, 80, 1, 3,
                      9, 3, 72, 2, 3, 8, 3, 84, 1, 5, 8, 3, 80, 1, 6, 7, 3,
                      80, 18, 3, 9, 5, 84, 18, 5, 8, 5, 80, 18, 6, 7, 5, 37,
                      1, 4, 4, 18, 4, 255>>)],
     [name |-> "I - Greed",
      data |-> PyList(<<
                      9, 20, 5, 10, 100, 137, 140, 251, 51, 75, 75, 80, 85,
                      90, 150, 150, 130, 130, 120, 8, 4, 9, 0, 0, 16, 20, 0,
                      0, 240, 120, 0, 0, 130, 5, 10, 13, 13, 0, 1, 12, 10,
                      130, 25, 10, 13, 13, 0, 1, 31, 10, 66, 17, 18, 9, 2, 64,
                      17, 19, 9, 2, 37, 7, 12, 4, 8, 12, 255>>)],
     [name |-> "J - Tracks",
      data |-> PyList(<<
                      10, 20, 25, 60, 0, 0, 0, 0, 0, 12, 12, 12, 12, 12, 150,
                      130, 120, 110, 100, 6, 8, 9, 0, 0, 0, 0, 0, 0, 0, 0, 0,
                      0, 37, 13, 3, 4, 39, 22, 84, 5, 4, 17, 3, 84, 21, 4, 17,
                      5, 128, 5, 11, 17, 3, 8, 194, 1, 4, 21, 17, 0, 13, 4,
                      194, 7, 6, 13, 13, 0, 13, 6, 194, 9, 8, 9, 9, 0, 13, 8,
                      194, 11, 10, 5, 5, 0, 13, 10, 130, 3, 6, 3, 15, 8, 0, 4,
                      6, 84, 4, 16, 4, 4, 255>>)],
     [name |-> "K - Crowd",
      data |-> PyList(<<
                      11, 20, 50, 0, 0, 4, 102, 151, 100, 6, 6, 6, 6, 6, 120,
                      120, 150, 150, 240, 11, 8, 9, 0, 0, 0, 16, 8, 0, 100,
                      80, 2, 0, 66, 10, 3, 9, 4, 66, 20, 3, 9, 4, 66, 30, 3,
                      9, 4, 66, 9, 22, 9, 0, 66, 12, 15, 17, 2, 66, 5, 11, 9,
                      2, 66, 15, 11, 9, 2, 66, 25, 11, 9, 2, 66, 28, 19, 11,
                      1, 20, 4, 3, 20, 14, 3, 20, 24, 3, 20, 34, 3, 20, 4, 22,
                      20, 35, 21, 37, 20, 20, 4, 38, 17, 255>>)],
     [name |-> "L - Walls",
      data |-> PyList(<<
                      12, 20, 20, 0, 0, 60, 2, 59, 102, 19, 19, 14, 16, 21,
                      180, 170, 160, 160, 160, 12, 10, 9, 0, 0, 0, 16, 20, 0,
                      60, 50, 9, 0, 66, 10, 5, 18, 4, 66, 14, 5, 18, 4, 66,
                      18, 5, 18, 4, 66, 22, 5, 18, 4, 66, 2, 6, 11, 2, 66, 2,
                      10, 11, 2, 66, 2, 14, 15, 2, 66, 2, 18, 11, 2, 129, 30,
                      4, 4, 4, 0, 8, 32, 5, 129, 30, 9, 4, 4, 0, 8, 32, 10,
                      129, 30, 14, 4, 4, 0, 8, 32, 15, 37, 3, 20, 4, 39, 22,
                      255>>)],
     [name |-> "Intermission 3",
      data |-> PyList(<<
                      19, 4, 10, 0, 10, 11, 12, 13, 14, 14, 14, 14, 14, 14,
                      20, 20, 20, 20, 20, 6, 8, 9, 0, 0, 0, 0, 0, 0, 0, 0, 0,
                      0, 135, 0, 2, 40, 22, 7, 135, 0, 2, 20, 12, 0, 84, 1,
                      12, 18, 2, 136, 15, 9, 4, 4, 8, 37, 8, 3, 4, 18, 7, 255>>)],
     [name |-> "M - Apocalypse",
      data |-> PyList(<<
                      13, 140, 5, 8, 0, 1, 2, 3, 4, 50, 55, 60, 70, 80, 160,
                      155, 150, 145, 140, 6, 8, 13, 0, 0, 16, 0, 0, 0, 40, 0,
                      0, 0, 37, 18, 3, 4, 10, 3, 58, 20, 3, 66, 5, 18, 30, 2,
                      112, 5, 19, 30, 2, 80, 5, 20, 30, 2, 193, 5, 21, 30, 2,
                      255>>)],
     [name |-> "N - Zigzag",
      data |-> PyList(<<
                      14, 20, 10, 20, 0, 0, 0, 0, 0, 30, 35, 40, 42, 45, 150,
                      145, 140, 135, 130, 12, 8, 9, 0, 0, 16, 0, 0, 0, 0, 0,
                      0, 0, 129, 10, 10, 13, 13, 0, 112, 11, 11, 12, 3, 193,
                      12, 10, 3, 13, 193, 16, 10, 3, 13, 193, 20, 10, 3, 13,
                      80, 22, 8, 12, 2, 72, 22, 7, 12, 2, 193, 23, 6, 3, 4,
                      193, 27, 6, 3, 4, 193, 31, 6, 3, 4, 37, 3, 3, 4, 39, 20,
                      255>>)],
     [name |-> "O - Funnel",
      data |-> PyList(<<
                      15, 8, 10, 20, 1, 29, 30, 31, 32, 15, 20, 20, 25, 30,
                      120, 120, 120, 120, 140, 8, 14, 9, 0, 0, 0, 16, 8, 0,
                      100, 80, 2, 0, 66, 2, 4, 10, 3, 66, 15, 13, 10, 1, 65,
                      12, 14, 3, 2, 67, 12, 15, 3, 2, 4, 20, 22, 37, 20, 3,
                      255>>)],
     [name |-> "P - Enchanted boxes",
      data |-> PyList(<<
                      16, 20, 10, 20, 1, 120, 129, 126, 123, 12, 15, 15, 15,
                      12, 150, 150, 150, 150, 150, 9, 10, 9, 0, 0, 16, 0, 0,
                      0, 50, 0, 0, 0, 37, 1, 3, 4, 39, 4, 129, 8, 19, 4, 4, 0,
                      8, 10, 20, 194, 7, 10, 6, 8, 67, 7, 10, 6, 2, 129, 16,
                      19, 4, 4, 0, 8, 18, 20, 194, 15, 10, 6, 8, 67, 15, 10,
                      6, 2, 129, 24, 19, 4, 4, 0, 8, 26, 20, 129, 32, 19, 4,
                      4, 0, 8, 34, 20, 255>>)],
     [name |-> "Intermission 4",
      data |-> PyList(<<
                      20, 3, 30, 0, 0, 0, 0, 0, 0, 6, 6, 6, 6, 6, 20, 20, 20,
                      20, 20, 6, 8, 9, 0, 0, 0, 0, 0, 0, 0, 0, 0, 0, 135, 0,
                      2, 40, 22, 7, 135, 0, 2, 20, 12, 1, 208, 11, 3, 3, 2,
                      128, 11, 7, 3, 6, 0, 67, 11, 6, 3, 2, 67, 11, 10, 3, 2,
                      80, 8, 7, 3, 3, 37, 3, 3, 4, 9, 10, 255>>)]>>

InitBuiltin ==
    /\ pc = "idle"
    /\ cave = NoCave
    /\ seeds = <<>>
    /\ fill_x = 0 /\ fill_y = 0 /\ n = 0
    /\ data = <<>>
    /\ returned = None
    /\ calls = <<>>
    /\ pre = <<>>
    /\ input = NoInput
    /\ decoded = <<>>
    /\ hist = <<>>
    /\ caveset = NoCaveSet
    /\ suspended = NoFrame
    /\ editor = NoEditor

\* one call of decode_from_lvl
DecodeBuiltin ==
    /\ decoded = <<>>
    /\ DecodeSized(BD1CAVES, CaveWidth, CaveHeight)

NextBuiltin ==
    \/ DecodeBuiltin
    \/ FillCell
    \/ SteelBoundary
    \/ Instruction
    \/ EndOfStream
    \/ Convert
    \/ Finish
    \/ Raise

SpecBuiltin == InitBuiltin /\ [][NextBuiltin]_vars

----------------------------------------------------------------------------
(* editor.py: the editor's Cave *)

\* the keys of EDITOR_OBJECTS
EDITOR_OBJECTS ==
    {"AMOEBA", "BOULDER", "BRICK", "BUTTERFLY", "DIAMOND", "DIRT", "EMPTY", "FIREFLY",
     "HEXPANDINGWALL", "INBOXBLINKING", "MAGICWALL", "OUTBOXCLOSED", "SLIME", "STEEL",
     "VEXPANDINGWALL", "VOODOO"}

\* a Cave of the editor: the fields of the base class and the snapshot
EditorCave(c) == c @@ [map_snapshot |-> <<>>]

\* the direction __setitem__ stores for an object given without one
StoredDirection(obj, direction) ==
    IF direction = "NOWHERE"
    THEN (IF obj \in {"BUTTERFLY", "ALTBUTTERFLY"} THEN "DOWN"
          ELSE IF obj \in {"FIREFLY", "ALTFIREFLY"} THEN "LEFT"
          ELSE direction)
    ELSE direction

\* Cave.__setitem__: the list item is assigned, then the tile is looked up
Cave_setitem(c, x, y, thing) ==
    IF c.exc # "none" THEN c
    ELSE LET i   == x + c.width * y
             len == PyLen(c.map)
         IN  IF i >= len \/ i < -len THEN [c EXCEPT !.exc = "IndexError"]
             ELSE LET w == [c EXCEPT !.map[PyIndex(i, len)] =
                                        <<thing[1], StoredDirection(thing[1], thing[2])>>]
                  IN  IF thing[1] \in EDITOR_OBJECTS THEN w
                      ELSE [w EXCEPT !.exc = "KeyError"]

\* Cave.__getitem__
Cave_getitem(c, x, y) ==
    LET i   == x + c.width * y
        len == PyLen(c.map)
    IN  IF i >= len \/ i < -len THEN [exc |-> "IndexError", value |-> <<"", "">>]
        ELSE [exc |-> "none", value |-> c.map[PyIndex(i, len)]]

\* Cave.horiz_line with k cells left
RECURSIVE horiz_line(_, _, _, _, _)
horiz_line(c, x, y, length, thing) ==
    IF length <= 0 \/ c.exc # "none" THEN c
    ELSE horiz_line(Cave_setitem(c, x, y, thing), x + 1, y, length - 1, thing)

\* Cave.vert_line with k cells left
RECURSIVE vert_line(_, _, _, _, _)
vert_line(c, x, y, length, thing) ==
    IF length <= 0 \/ c.exc # "none" THEN c
    ELSE vert_line(Cave_setitem(c, x, y, thing), x, y + 1, length - 1, thing)

\* a snapshot that keeps the copy it already has
SnapshotOnce(c) == IF c.map_snapshot = <<>> THEN [c EXCEPT !.map_snapshot = c.map] ELSE c

\* Cave.snapshot: self.map_snapshot = self.map.copy()
Cave_snapshot(c) == [c EXCEPT !.map_snapshot = c.map]

\* the loops of Cave.restore from cell k on, in row-major order
RECURSIVE RestoreLoop(_, _, _)
RestoreLoop(c, snapshot, k) ==
    IF k >= c.width * c.height \/ c.exc # "none" THEN c
    ELSE IF k >= PyLen(snapshot) THEN [c EXCEPT !.exc = "IndexError"]
    ELSE RestoreLoop(Cave_setitem(c, k % c.width, k \div c.width, snapshot[k]),
                     snapshot, k + 1)

\* Cave.restore
Cave_restore(c) ==
    IF c.map_snapshot = <<>> THEN c ELSE RestoreLoop(c, c.map_snapshot, 0)

\* the loop of init_for_editor that draws the tiles: the first exception it
\* raises
DrawTiles(c, columns, rows) ==
    LET failing == {k \in 0 .. columns * rows - 1 :
                       LET t == Cave_getitem(c, k % columns, k \div columns)
                       IN  t.exc # "none" \/ t.value[1] \notin EDITOR_OBJECTS}
    IN  IF failing = {} THEN "none"
        ELSE LET k == CHOOSE j \in failing : \A i \in failing : j <= i
             IN  IF Cave_getitem(c, k % columns, k \div columns).exc # "none"
                 THEN "IndexError" ELSE "KeyError"

\* Cave.init_for_editor
init_for_editor(c) ==
    LET c1 == IF PyLen(c.map) = 0
              THEN [c EXCEPT !.map = [i \in 0 .. c.width * c.height - 1 |->
                                         <<"EMPTY", "NOWHERE">>]]
              ELSE c
        c2 == Cave_snapshot(c1)
    IN  [c2 EXCEPT !.exc = DrawTiles(c2, c2.width, c2.height)]

----------------------------------------------------------------------------
(* editor.py: EditorWindow *)

\* flood(x, y) and the calls it has still to make, first call first
RECURSIVE Flood(_, _, _, _)
Flood(c, pending, target, thing) ==
    IF pending = <<>> \/ c.exc # "none" THEN c
    ELSE LET x == Head(pending)[1]
             y == Head(pending)[2]
             t == Cave_getitem(c, x, y)
         IN  IF t.exc # "none" THEN [c EXCEPT !.exc = t.exc]
             ELSE IF t.value[1] # target THEN Flood(c, Tail(pending), target, thing)
             ELSE Flood(Cave_setitem(c, x, y, thing),
                        << <<x - 1, y>>, <<x + 1, y>>, <<x, y - 1>>, <<x, y + 1>> >>
                            \o Tail(pending),
                        target, thing)

\* EditorWindow.flood_fill
flood_fill(c, x, y, thing) ==
    LET t == Cave_getitem(c, x, y)
    IN  IF c.exc # "none" THEN c
        ELSE IF t.exc # "none" THEN [c EXCEPT !.exc = t.exc]
        ELSE IF t.value[1] = thing[1] THEN c
        ELSE Flood(c, << <<x, y>> >>, t.value[1], thing)

\* the four steel lines of init_new_cave
SteelBorder(c, columns, rows) ==
    LET steel == <<"STEEL", "NOWHERE">>
        c1 == horiz_line(c, 0, 0, columns, steel)
        c2 == horiz_line(c1, 0, rows - 1, columns, steel)
        c3 == vert_line(c2, 0, 1, rows - 2, steel)
    IN  vert_line(c3, columns - 1, 1, rows - 2, steel)

\* EditorWindow.init_new_cave()
init_new_cave(name, description, columns, rows) ==
    LET c == init_for_editor(EditorCave(NewCave(0, name, description, columns, rows)))
    IN  flood_fill(SteelBorder(c, columns, rows), 2, 2, <<"DIRT", "NOWHERE">>)

\* create_canvas_playfield: the exception it raises; the playfield size is
\* assigned before the loop over the tiles
create_canvas_playfield(c, width, height) ==
    IF width < 4 \/ width > 200 \/ height < 4 \/ height > 200
    THEN [exc |-> "ValueError", assigned |-> FALSE]
    ELSE [exc |-> DrawTiles(c, width, height), assigned |-> TRUE]

\* EditorWindow.__init__: the playfield of the visible size, wipe(False),
\* create_canvas_playfield
NewEditor(columns, rows) ==
    [constructed |-> TRUE, playfield_columns |-> columns, playfield_rows |-> rows,
     c64colors |-> FALSE, files |-> <<>>, launched |-> {}, edits |-> 0]

\* the edge cells of sanitycheck's two loops, in the order they are read
EdgeReads(c) ==
    [k \in 1 .. 2 * c.width |->
        IF k % 2 = 1 THEN <<(k - 1) \div 2, 0>> ELSE <<(k - 1) \div 2, c.height - 1>>]
    \o [k \in 1 .. 2 * c.height |->
        IF k % 2 = 1 THEN <<0, (k - 1) \div 2>> ELSE <<c.width - 1, (k - 1) \div 2>>]

edge_objs_allowed == {"STEEL", "INBOXBLINKING", "OUTBOXBLINKING", "OUTBOXCLOSED"}

inbox_count(c) == Cardinality({i \in DOMAIN c.map : c.map[i][1] = "INBOXBLINKING"})

\* a count of the outboxes that takes an inbox for one
outbox_count_inboxes(c) ==
    Cardinality({i \in DOMAIN c.map :
                    c.map[i][1] \in {"INBOXBLINKING", "OUTBOXCLOSED", "OUTBOXBLINKING"}})

outbox_count(c) ==
    Cardinality({i \in DOMAIN c.map : c.map[i][1] \in {"OUTBOXCLOSED", "OUTBOXBLINKING"}})

\* EditorWindow.sanitycheck: its result, or the exception of an edge read
sanitycheck(c) ==
    LET reads        == EdgeReads(c)
        read(k)      == Cave_getitem(c, reads[k][1], reads[k][2])
    IN  IF \E k \in 1 .. Len(reads) : read(k).exc # "none"
        THEN [exc |-> "IndexError", ok |-> FALSE]
        ELSE [exc |-> "none",
              ok  |-> /\ inbox_count(c) > 0
                      /\ outbox_count(c) > 0
                      /\ \A k \in 1 .. Len(reads) : read(k).value[1] \in edge_objs_allowed]

\* no file of that name was written
NoFile == <<>>

\* EditorWindow.save: what it returns and the files after it; chosen is the
\* answer of the file dialog, asked when no gamefile is given
save(ed, c, gamefile, chosen) ==
    LET sane  == sanitycheck(c)
        lines == SaveMaplines(c)
        name  == IF gamefile # "" THEN gamefile ELSE chosen
    IN  IF sane.exc # "none" THEN [exc |-> sane.exc, result |-> FALSE, files |-> ed.files]
        ELSE IF ~sane.ok THEN [exc |-> "none", result |-> FALSE, files |-> ed.files]
        ELSE IF lines.exc # "none" THEN [exc |-> lines.exc, result |-> FALSE, files |-> ed.files]
        ELSE IF name # ""
        THEN [exc |-> "none", result |-> TRUE,
              files |-> [ed.files EXCEPT ![name] = lines.maplines]]
        ELSE [exc |-> "none", result |-> FALSE, files |-> ed.files]

\* the cells clicked and the objects selected for drawing and erasing
EditCells == {<<0, 0>>, <<1, 1>>, <<2, 1>>, <<3, 2>>, <<GridWidth - 1, GridHeight - 1>>}
EditObjects == {"BOULDER", "INBOXBLINKING", "OUTBOXCLOSED", "EMPTY"}

\* what the editor and its cave were before the last save, playtest,
\* snapshot or restore
Before == [map |-> cave.map, files |-> editor.files, launched |-> editor.launched]

\* the EditorWindow after __init__: wipe(False) on a playfield of the
\* visible size; hist holds the map at the last call of snapshot()
InitEditor ==
    /\ pc = "idle"
    /\ cave = Cave_snapshot(init_new_cave("Test.", "A test cave.", GridWidth, GridHeight))
    /\ editor = [NewEditor(GridWidth, GridHeight) EXCEPT
                    !.files = [dialog |-> NoFile, playtest |-> NoFile]]
    /\ seeds = <<>>
    /\ fill_x = 0 /\ fill_y = 0 /\ n = 0
    /\ data = <<>>
    /\ returned = FALSE
    /\ calls = <<>>
    /\ pre = <<>>
    /\ input = NoInput
    /\ decoded = <<>>
    /\ hist = <<cave.map>>
    /\ caveset = NoCaveSet
    /\ suspended = NoFrame

\* mousebutton_left / mousebutton_right on a tile
EditCell ==
    /\ pc = "idle"
    /\ editor.edits < MaxEdits
    /\ \E cell \in EditCells, obj \in EditObjects :
          /\ cave' = Cave_setitem(cave, cell[1], cell[2], <<obj, "NOWHERE">>)
          /\ calls' = <<[op |-> "edit"]>>
    /\ editor' = [editor EXCEPT !.edits = @ + 1]
    /\ pre' = <<>>
    /\ UNCHANGED <<pc, seeds, fill_x, fill_y, n, data, returned, input, decoded, hist,
                   caveset, suspended>>

\* the Save button: save() asks for a file name
Save ==
    /\ pc = "idle"
    /\ \E chosen \in {"", "dialog"} :
          LET r == save(editor, cave, "", chosen)
          IN  /\ editor' = [editor EXCEPT !.files = r.files]
              /\ returned' = r.result
              /\ calls' = <<[op |-> "save", gamefile |-> chosen, exc |-> r.exc]>>
    /\ pre' = Before
    /\ UNCHANGED <<pc, cave, seeds, fill_x, fill_y, n, data, input, decoded, hist,
                   caveset, suspended>>

\* the Playtest button: the game is launched on the file save() wrote
Playtest ==
    /\ pc = "idle"
    /\ LET r == save(editor, cave, "playtest", "")
       IN  /\ editor' = [editor EXCEPT
                            !.files = r.files,
                            !.launched = IF r.result THEN @ \cup {r.files.playtest} ELSE @]
           /\ returned' = r.result
           /\ calls' = <<[op |-> "playtest", gamefile |-> "playtest", exc |-> r.exc]>>
    /\ pre' = Before
    /\ UNCHANGED <<pc, cave, seeds, fill_x, fill_y, n, data, input, decoded, hist,
                   caveset, suspended>>

NextSave ==
    \/ EditCell
    \/ Save
    \/ Playtest

SpecSave == InitEditor /\ [][NextSave]_vars

\* a callback's exception is reported by Tk and the editor goes on
Caught(c) == [c EXCEPT !.exc = "none"]

\* the object selected when a key is pressed
KeyObjects == {"FIREFLY"}

\* random.randrange(1, width - 1), random.randrange(1, height - 1)
Interior(c) == (1 .. c.width - 2) \X (1 .. c.height - 2)

\* the ten cells drawn by key 'r': here they fall on at most two cells
Draws(c) == {[k \in 1 .. 10 |-> IF k % 2 = 1 THEN a ELSE b] : a, b \in Interior(c)}

\* the loop of key 'r' over the cells drawn
RECURSIVE DropAll(_, _, _)
DropAll(c, cells, thing) ==
    IF cells = <<>> THEN c
    ELSE DropAll(Cave_setitem(c, Head(cells)[1], Head(cells)[2], thing), Tail(cells), thing)

\* keypress 'f' on a tile
FloodFill ==
    /\ pc = "idle"
    /\ editor.edits < MaxEdits
    /\ \E cell \in EditCells, obj \in KeyObjects :
          LET c == flood_fill(cave, cell[1], cell[2], <<obj, "NOWHERE">>)
          IN  /\ cave' = Caught(c)
              /\ calls' = <<[op |-> "flood", exc |-> c.exc]>>
    /\ editor' = [editor EXCEPT !.edits = @ + 1]
    /\ pre' = <<>>
    /\ UNCHANGED <<pc, seeds, fill_x, fill_y, n, data, returned, input, decoded, hist,
                   caveset, suspended>>

\* keypress 'r'
RandomDrop ==
    /\ pc = "idle"
    /\ editor.edits < MaxEdits
    /\ \E cells \in Draws(cave), obj \in KeyObjects :
          LET c == DropAll(cave, cells, <<obj, "NOWHERE">>)
          IN  /\ cave' = Caught(c)
              /\ calls' = <<[op |-> "drop", exc |-> c.exc]>>
    /\ editor' = [editor EXCEPT !.edits = @ + 1]
    /\ pre' = <<>>
    /\ UNCHANGED <<pc, seeds, fill_x, fill_y, n, data, returned, input, decoded, hist,
                   caveset, suspended>>

\* keypress 's'
Snapshot ==
    /\ pc = "idle"
    /\ cave' = Cave_snapshot(cave)
    /\ hist' = <<cave.map>>
    /\ calls' = <<[op |-> "snapshot"]>>
    /\ pre' = Before
    /\ UNCHANGED <<pc, seeds, fill_x, fill_y, n, data, returned, input, decoded,
                   caveset, suspended, editor>>

\* keypress 'u'
Restore ==
    /\ pc = "idle"
    /\ LET c == Cave_restore(cave)
       IN  /\ cave' = Caught(c)
           /\ calls' = <<[op |-> "restore", exc |-> c.exc]>>
    /\ pre' = Before
    /\ UNCHANGED <<pc, seeds, fill_x, fill_y, n, data, returned, input, decoded, hist,
                   caveset, suspended, editor>>

NextUndo ==
    \/ EditCell
    \/ FloodFill
    \/ RandomDrop
    \/ Snapshot
    \/ Restore

SpecUndo == InitEditor /\ [][NextUndo]_vars

\* str.title() on the names of the editor's objects
title ==
    ("AMOEBA" :> "Amoeba") @@ ("BOULDER" :> "Boulder") @@ ("BRICK" :> "Brick")
    @@ ("BUTTERFLY" :> "Butterfly") @@ ("DIAMOND" :> "Diamond") @@ ("DIRT" :> "Dirt")
    @@ ("EMPTY" :> "Empty") @@ ("FIREFLY" :> "Firefly")
    @@ ("HEXPANDINGWALL" :> "Hexpandingwall") @@ ("INBOXBLINKING" :> "Inboxblinking")
    @@ ("MAGICWALL" :> "Magicwall") @@ ("OUTBOXCLOSED" :> "Outboxclosed")
    @@ ("SLIME" :> "Slime") @@ ("STEEL" :> "Steel")
    @@ ("VEXPANDINGWALL" :> "Vexpandingwall") @@ ("VOODOO" :> "Voodoo")

\* str.lower() on the names of the editor's objects and on their titled form
lower ==
    ("AMOEBA" :> "amoeba") @@ ("BOULDER" :> "boulder") @@ ("BRICK" :> "brick")
    @@ ("BUTTERFLY" :> "butterfly") @@ ("DIAMOND" :> "diamond") @@ ("DIRT" :> "dirt")
    @@ ("EMPTY" :> "empty") @@ ("FIREFLY" :> "firefly")
    @@ ("HEXPANDINGWALL" :> "hexpandingwall") @@ ("INBOXBLINKING" :> "inboxblinking")
    @@ ("MAGICWALL" :> "magicwall") @@ ("OUTBOXCLOSED" :> "outboxclosed")
    @@ ("SLIME" :> "slime") @@ ("STEEL" :> "steel")
    @@ ("VEXPANDINGWALL" :> "vexpandingwall") @@ ("VOODOO" :> "voodoo")
    @@ ("Amoeba" :> "amoeba") @@ ("Boulder" :> "boulder") @@ ("Brick" :> "brick")
    @@ ("Butterfly" :> "butterfly") @@ ("Diamond" :> "diamond") @@ ("Dirt" :> "dirt")
    @@ ("Empty" :> "empty") @@ ("Firefly" :> "firefly")
    @@ ("Hexpandingwall" :> "hexpandingwall") @@ ("Inboxblinking" :> "inboxblinking")
    @@ ("Magicwall" :> "magicwall") @@ ("Outboxclosed" :> "outboxclosed")
    @@ ("Slime" :> "slime") @@ ("Steel" :> "steel")
    @@ ("Vexpandingwall" :> "vexpandingwall") @@ ("Voodoo" :> "voodoo")

\* {obj.name.lower(): obj for obj in EDITOR_OBJECTS}
editor_objects_by_name ==
    [nm \in {lower[o] : o \in EDITOR_OBJECTS} |-> CHOOSE o \in EDITOR_OBJECTS : lower[o] = nm]

\* the loops of do_random_fill from cell k on: x runs over the columns of the
\* playfield, y over its rows 1 .. rows - 2
RECURSIVE RandomFillLoop(_, _, _, _, _, _, _)
RandomFillLoop(c, randomseeds, k, columns, rows, randomprobs, randomobjs) ==
    IF k >= columns * (rows - 2) \/ c.exc # "none" THEN c
    ELSE LET r       == bdrandom(randomseeds)
             objname == RandomObjectLoop(lower["DIRT"], r.seeds[0],
                                         [i \in DOMAIN randomobjs |-> lower[randomobjs[i]]],
                                         randomprobs, 0)
         IN  IF r.exc # "none" THEN [c EXCEPT !.exc = r.exc]
             ELSE IF objname \notin DOMAIN editor_objects_by_name
             THEN [c EXCEPT !.exc = "KeyError"]
             ELSE RandomFillLoop(Cave_setitem(c, k % columns, 1 + (k \div columns),
                                              <<editor_objects_by_name[objname], "NOWHERE">>),
                                 r.seeds, k + 1, columns, rows, randomprobs, randomobjs)

\* EditorWindow.do_random_fill, with init_new_cave(only_steel_border=True)
do_random_fill(c, columns, rows, rseed, randomprobs, randomobjs) ==
    SteelBorder(RandomFillLoop(c, PyList(<<0, rseed>>), 0, columns, rows,
                               randomprobs, randomobjs),
                columns, rows)

\* what RandomizeDialog.apply hands over: the values the dialog starts with,
\* a fill of one object, and probabilities the dialog's validate lets pass
\* (it reads the first probability four times)
Fills ==
    {[rseed |-> 199, randomprobs |-> PyList(<<100, 60, 25, 15>>),
      randomobjs |-> PyList(<<title["EMPTY"], title["BOULDER"], title["DIAMOND"],
                              title["FIREFLY"]>>)],
     [rseed |-> 0, randomprobs |-> PyList(<<255, 0, 0, 0>>),
      randomobjs |-> PyList(<<title["BUTTERFLY"], title["DIRT"], title["DIRT"],
                              title["DIRT"]>>)],
     [rseed |-> 255, randomprobs |-> PyList(<<100, 60, 25, 15>>),
      randomobjs |-> PyList(<<title["MAGICWALL"], title["OUTBOXCLOSED"], title["DIAMOND"],
                              title["BOULDER"]>>)],
     [rseed |-> 30, randomprobs |-> PyList(<<0, 300, -5, 128>>),
      randomobjs |-> PyList(<<title["STEEL"], title["AMOEBA"], title["BRICK"],
                              title["INBOXBLINKING"]>>)]}

\* a row of a map file: c at its ends, inner in between
MapRow(width, c, inner) == [x \in 1 .. width |-> IF x = 1 \/ x = width THEN c ELSE inner]

\* a map of steel around dirt with an inbox and an outbox
MapLines(width, height) ==
    [y \in 1 .. height |->
        IF y = 1 \/ y = height THEN MapRow(width, "W", "W")
        ELSE IF y = 2 THEN [MapRow(width, "W", ".") EXCEPT ![2] = "P", ![width - 1] = "X"]
        ELSE MapRow(width, "W", ".")]

\* the caveset file the Load button opens: a cave of the size of the
\* playfield, a smaller one, a larger one, one with a hidden outbox
EditorFile ==
    [name |-> "caves", author |-> "somebody", www |-> "", date |-> "2017",
     caves |-> <<BdcffCave("same", 1, 5, 0, MapLines(GridWidth, GridHeight)),
                 BdcffCave("small", 1, 5, 0, MapLines(4, 4)),
                 BdcffCave("large", 1, 5, 0, MapLines(GridWidth + 1, GridHeight + 1)),
                 BdcffCave("hidden", 1, 5, 0,
                           [MapLines(GridWidth, GridHeight) EXCEPT ![2][GridWidth - 1] = "H"])>>]

\* the Wipe button, confirmed
Wipe ==
    /\ pc = "idle"
    /\ LET c == init_new_cave(cave.name, cave.description,
                              editor.playfield_columns, editor.playfield_rows)
       IN  /\ cave' = Caught(Cave_snapshot(c))
           /\ hist' = <<cave'.map>>
           /\ calls' = <<[op |-> "wipe", exc |-> c.exc]>>
    /\ pre' = <<>>
    /\ UNCHANGED <<pc, seeds, fill_x, fill_y, n, data, returned, input, decoded,
                   caveset, suspended, editor>>

\* the Load button, confirmed: the cave chosen in the selection dialog
\* replaces the editor's cave once init_for_editor has returned
Load ==
    /\ pc = "idle"
    /\ \E cavenum \in 1 .. Len(EditorFile.caves) :
          LET set    == CaveSetBdcff(EditorFile, "Cave")
              b      == CaveOfList(set.bdcff_caves.caves, cavenum)
              loaded == cave_from_bdcff(set, cavenum, b.cave)
              c      == init_for_editor(EditorCave(loaded))
              p      == create_canvas_playfield(c, editor.playfield_columns,
                                                editor.playfield_rows)
          IN  IF c.exc # "none"
              THEN /\ calls' = <<[op |-> "load", cavenum |-> cavenum, exc |-> c.exc]>>
                   /\ UNCHANGED <<cave, hist, editor>>
              ELSE /\ cave' = c
                   /\ hist' = <<c.map>>
                   /\ editor' = IF p.assigned
                                THEN [editor EXCEPT
                                         !.playfield_columns = editor.playfield_columns,
                                         !.playfield_rows = editor.playfield_rows]
                                ELSE editor
                   /\ calls' = <<[op |-> "load", cavenum |-> cavenum, exc |-> p.exc]>>
    /\ pre' = <<>>
    /\ UNCHANGED <<pc, seeds, fill_x, fill_y, n, data, returned, input, decoded,
                   caveset, suspended>>

\* the Randomize button and its dialog, applied
RandomFill ==
    /\ pc = "idle"
    /\ \E f \in Fills :
          LET c == do_random_fill(cave, editor.playfield_columns, editor.playfield_rows,
                                  f.rseed, f.randomprobs, f.randomobjs)
          IN  /\ cave' = Caught(c)
              /\ calls' = <<[op |-> "randomfill", fill |-> f, exc |-> c.exc]>>
    /\ pre' = <<>>
    /\ UNCHANGED <<pc, seeds, fill_x, fill_y, n, data, returned, input, decoded, hist,
                   caveset, suspended, editor>>

\* the "Enable retro palette" check button: c64_colors_switched
PaletteSwitch ==
    /\ pc = "idle"
    /\ \E switch \in BOOLEAN :
          LET p == create_canvas_playfield(cave, editor.playfield_columns,
                                           editor.playfield_rows)
          IN  /\ editor' = [editor EXCEPT
                               !.c64colors = switch,
                               !.playfield_columns =
                                   IF p.assigned THEN editor.playfield_columns ELSE @,
                               !.playfield_rows =
                                   IF p.assigned THEN editor.playfield_rows ELSE @]
              /\ calls' = <<[op |-> "palette", exc |-> p.exc]>>
    /\ pre' = <<>>
    /\ UNCHANGED <<pc, cave, seeds, fill_x, fill_y, n, data, returned, input, decoded, hist,
                   caveset, suspended>>

NextEditor ==
    \/ Wipe
    \/ Load
    \/ RandomFill
    \/ PaletteSwitch

SpecEditor == InitEditor /\ [][NextEditor]_vars

\* the objects selected for a flood fill
FloodObjects == {"BOULDER", "STEEL", "DIRT"}

\* keypress 'f' on any tile of the playfield, after the edits
FloodAt ==
    /\ pc = "idle"
    /\ \E x \in 0 .. editor.playfield_columns - 1, y \in 0 .. editor.playfield_rows - 1,
          obj \in FloodObjects :
          LET c == flood_fill(cave, x, y, <<obj, "NOWHERE">>)
          IN  /\ cave' = Caught(c)
              /\ calls' = <<[op |-> "flood", x |-> x, y |-> y, obj |-> obj, exc |-> c.exc]>>
    /\ pc' = "flooded"
    /\ pre' = Before
    /\ UNCHANGED <<seeds, fill_x, fill_y, n, data, returned, input, decoded, hist,
                   caveset, suspended, editor>>

NextFlood ==
    \/ EditCell
    \/ FloodAt

SpecFlood == InitEditor /\ [][NextFlood]_vars

----------------------------------------------------------------------------
(* the generator's contract *)

\* the successor pair written with division and remainder only
Section41(s0, s1) ==
    LET tmp1  == (s0 % 2) * 128
        tmp2  == (s1 \div 2) % 128
        r1    == s1 + (s1 % 2) * 128
        c1    == IF r1 > 255 THEN 1 ELSE 0
        r2    == (r1 % 256) + c1 + 19
        c2    == IF r2 > 255 THEN 1 ELSE 0
        r3    == s0 + c2 + tmp1
        c3    == IF r3 > 255 THEN 1 ELSE 0
        r4    == (r3 % 256) + c3 + tmp2
    IN  <<r4 % 256, r2 % 256>>

BdrandomCalled == calls # <<>> /\ calls[Len(calls)].op = "bdrandom"

\* C1: one call of bdrandom replaces a pair of bytes (s0, s1) by exactly the
\* pair of the section 4.1 algorithm, with its three carries; (1, 0) becomes
\* (0x81, 0x13).
C1_BdrandomIsSection41 ==
    BdrandomCalled =>
        /\ <<seeds[0], seeds[1]>> = Section41(pre[0], pre[1])
        /\ (pre[0] = 1 /\ pre[1] = 0) => (seeds[0] = 129 /\ seeds[1] = 19)

\* the golden vector, and a call in which the second carry is set
C1_Witness ==
    /\ BdrandomCalled
    /\ pre[0] = 1 /\ pre[1] = 0
    /\ seeds[0] = 129 /\ seeds[1] = 19

\* C2: from any pair of bytes, after any number of steps both seeds are
\* bytes and no assertion of bdrandom has failed.
C2_SeedsStayBytes ==
    /\ seeds[0] \in 0 .. 255
    /\ seeds[1] \in 0 .. 255
    /\ pc # "error"

\* a step whose last addition overflows a byte before the mask
C2_Witness ==
    /\ BdrandomCalled
    /\ pre[0] = 255 /\ pre[1] = 255
    /\ seeds[0] \in 0 .. 255
    /\ pc = "idle"

----------------------------------------------------------------------------
(* the drawing primitives called on a buffer of GridWidth x GridHeight *)

\* bytearray(width * height), then one of two contents
Backgrounds ==
    {[i \in 0 .. GridWidth * GridHeight - 1 |-> 0],
     [i \in 0 .. GridWidth * GridHeight - 1 |-> 2 * (i % 2)]}

DrawObjects == {7}
FillObjects == {None, 1}
Columns == -1 .. GridWidth
Rows == -1 .. GridHeight
Lengths == 0 .. MaxLength

InitDraw ==
    /\ pc = "idle"
    /\ \E b \in Backgrounds :
          cave = [width |-> GridWidth, height |-> GridHeight, codemap |-> b,
                  exc |-> "none"]
    /\ seeds = <<>>
    /\ fill_x = 0 /\ fill_y = 0 /\ n = 0
    /\ data = <<>>
    /\ returned = None
    /\ calls = <<>>
    /\ pre = <<>>
    /\ input = NoInput
    /\ decoded = <<>>
    /\ hist = <<>>
    /\ caveset = NoCaveSet
    /\ suspended = NoFrame
    /\ editor = NoEditor

\* the caller's side of a primitive: the buffer is changed in place, an
\* exception ends the call
Drawn(c, call) ==
    /\ cave' = c
    /\ pc' = IF c.exc = "none" THEN "done" ELSE "error"
    /\ returned' = c.exc
    /\ pre' = cave.codemap
    /\ calls' = <<call>>
    /\ UNCHANGED <<seeds, fill_x, fill_y, n, data, input, decoded, hist,
                   caveset, suspended, editor>>

CallDrawSingle ==
    /\ pc = "idle"
    /\ \E obj \in DrawObjects, px \in Columns, py \in Rows :
          Drawn(draw_single(cave, obj, px, py),
                [op |-> "draw_single", obj |-> obj, x |-> px, y |-> py])

CallDrawLine ==
    /\ pc = "idle"
    /\ \E obj \in DrawObjects, px \in Columns, py \in Rows,
          length \in Lengths, direction \in 0 .. 7 :
          Drawn(draw_line(cave, obj, px, py, length, direction),
                [op |-> "draw_line", obj |-> obj, x |-> px, y |-> py,
                 length |-> length, direction |-> direction])

CallDrawRectangle ==
    /\ pc = "idle"
    /\ \E obj \in DrawObjects, px \in Columns, py \in Rows,
          width \in Lengths, height \in Lengths, fillobject \in FillObjects :
          Drawn(draw_rectangle(cave, obj, px, py, width, height, fillobject),
                [op |-> "draw_rectangle", obj |-> obj, x |-> px, y |-> py,
                 width |-> width, height |-> height, fillobject |-> fillobject])

NextDraw == CallDrawSingle \/ CallDrawLine \/ CallDrawRectangle

SpecDraw == InitDraw /\ [][NextDraw]_vars

----------------------------------------------------------------------------
(* the primitives' contracts *)

LastCall == calls[Len(calls)]

Called(op) == calls # <<>> /\ LastCall.op = op

\* the cells of the buffer, as (column, row) pairs
Cells == (0 .. cave.width - 1) \X (0 .. cave.height - 1)

InGrid(cx, cy) == cx \in 0 .. cave.width - 1 /\ cy \in 0 .. cave.height - 1

CellNow(cell) == cave.codemap[cell[1] + cell[2] * cave.width]
CellBefore(cell) == pre[cell[1] + cell[2] * cave.width]

\* the compass table of the format: N, NE, E, SE, S, SW, W, NW
Compass ==
    << <<0, -1>>, <<1, -1>>, <<1, 0>>, <<1, 1>>, <<0, 1>>, <<-1, 1>>, <<-1, 0>>,
       <<-1, -1>> >>

LineCells(k) ==
    {<<k.x + i * Compass[k.direction + 1][1], k.y + i * Compass[k.direction + 1][2]>> :
        i \in 0 .. k.length - 1}

RectCells(k) == (k.x .. k.x + k.width - 1) \X (k.y .. k.y + k.height - 1)

InteriorCells(k) == (k.x + 1 .. k.x + k.width - 2) \X (k.y + 1 .. k.y + k.height - 2)

OutlineCells(k) == RectCells(k) \ InteriorCells(k)

RectInside(k) ==
    /\ InGrid(k.x, k.y)
    /\ InGrid(k.x + k.width - 1, k.y + k.height - 1)

\* C7: draw_rectangle with width >= 2 and height >= 2 inside the buffer sets
\* exactly the outline cells to obj and, with a fill code, exactly the
\* (width-2)*(height-2) interior cells to it; without one the interior, and
\* in either case every cell outside the rectangle, is unchanged.
C7_RectangleExact ==
    (Called("draw_rectangle") /\ LastCall.width >= 2 /\ LastCall.height >= 2
        /\ RectInside(LastCall)) =>
        /\ pc = "done"
        /\ Cardinality(InteriorCells(LastCall))
              = (LastCall.width - 2) * (LastCall.height - 2)
        /\ \A cell \in Cells :
              CellNow(cell) =
                 IF cell \in OutlineCells(LastCall) THEN LastCall.obj
                 ELSE IF cell \in InteriorCells(LastCall) /\ LastCall.fillobject # None
                      THEN LastCall.fillobject
                 ELSE CellBefore(cell)

\* a filled rectangle with an interior, away from the buffer's edges
C7_Witness ==
    /\ Called("draw_rectangle") /\ pc = "done"
    /\ LastCall.width = 4 /\ LastCall.height = 3 /\ LastCall.fillobject = 1
    /\ LastCall.x = 1 /\ LastCall.y = 1
    /\ CellNow(<<2, 2>>) = 1 /\ CellNow(<<1, 2>>) = 7 /\ CellNow(<<0, 2>>) = CellBefore(<<0, 2>>)

\* C8: draw_line with direction in 0..7 sets exactly the cells
\* (x + i*dx, y + i*dy), i < length, to obj, (dx, dy) being the compass
\* table's entry; length 0 writes nothing; the other cells are unchanged.
\* (The cells named are cells of the buffer.)
C8_LineExact ==
    (Called("draw_line") /\ LineCells(LastCall) \subseteq Cells) =>
        /\ pc = "done"
        /\ \A cell \in Cells :
              CellNow(cell) =
                 IF cell \in LineCells(LastCall) THEN LastCall.obj ELSE CellBefore(cell)

\* a south-west diagonal of three cells
C8_Witness ==
    /\ Called("draw_line") /\ pc = "done"
    /\ LastCall.direction = 5 /\ LastCall.length = 3
    /\ LastCall.x = 3 /\ LastCall.y = 1
    /\ CellNow(<<1, 3>>) = 7 /\ CellNow(<<3, 3>>) = CellBefore(<<3, 3>>)

\* C9: out-of-range coordinates are not tolerated silently: a draw_single call
\* whose cell lies outside the buffer modifies no cell and is rejected.
\* (draw_single stores at x + y*width unchecked, so this does not hold.)
C9_OutOfRangeRejected ==
    (Called("draw_single") /\ ~InGrid(LastCall.x, LastCall.y)) =>
        /\ cave.codemap = pre
        /\ pc = "error"

\* C10: draw_rectangle with width < 2 or height < 2 and a fill code writes no
\* interior cell: no cell receives the fill code, and the interior loops
\* raise nothing when the outline lies inside the buffer.
C10_DegenerateNoFill ==
    (Called("draw_rectangle") /\ LastCall.fillobject # None
        /\ (LastCall.width < 2 \/ LastCall.height < 2)) =>
        /\ \A i \in DOMAIN pre :
              cave.codemap[i] = LastCall.fillobject => pre[i] = LastCall.fillobject
        /\ (LastCall.width >= 1 /\ LastCall.height >= 1 /\ RectInside(LastCall))
              => pc = "done"

\* a filled rectangle one cell wide and three high
C10_Witness ==
    /\ Called("draw_rectangle") /\ pc = "done"
    /\ LastCall.fillobject = 1 /\ LastCall.width = 1 /\ LastCall.height = 3
    /\ LastCall.x = 2 /\ LastCall.y = 0
    /\ CellNow(<<2, 1>>) = 7

----------------------------------------------------------------------------
(* build_map's contract *)

IsFill(k) == k.op = "fill"
IsInstr(k) == k.op = "instr"

FillCalls == SelectSeq(calls, IsFill)
InstrCalls == SelectSeq(calls, IsInstr)

\* the seed pair after k steps of section 4.1 from (0, randomseed)
RECURSIVE SeedsAfter(_, _)
SeedsAfter(k, randomseed) ==
    IF k = 0 THEN <<0, randomseed>>
    ELSE LET s == SeedsAfter(k - 1, randomseed) IN Section41(s[1], s[2])

\* the pairs whose probability is strictly greater than the generator's byte
Qualifying(seed0) == {i \in 0 .. 3 : cave.random_probabilities[i] > seed0}

\* the object of the last qualifying pair, or dirt
Chosen(seed0) ==
    IF Qualifying(seed0) = {} THEN 1
    ELSE cave.random_objects[CHOOSE i \in Qualifying(seed0) :
                                \A j \in Qualifying(seed0) : j <= i]

\* C4: the fill steps the generator once per cell of rows 1..height-2, row by
\* row, width*(height-2) times from (0, randomseed), and gives each cell the
\* object of the last pair whose probability exceeds seeds[0], or dirt.
C4_FillOncePerCell ==
    pc \in {"fill", "boundary"} =>
        /\ \A k \in 1 .. Len(FillCalls) :
              LET f == FillCalls[k]
              IN  /\ f.x = (k - 1) % cave.width
                  /\ f.y = 1 + (k - 1) \div cave.width
                  /\ f.seed0 = SeedsAfter(k, cave.randomseed)[1]
                  /\ f.obj = Chosen(f.seed0)
                  /\ cave.codemap[f.x + f.y * cave.width] = f.obj
        /\ <<seeds[0], seeds[1]>> = SeedsAfter(Len(FillCalls), cave.randomseed)
        /\ pc = "boundary" =>
              /\ Len(FillCalls) = cave.width * (cave.height - 2)
              /\ \A cx \in 0 .. cave.width - 1 :
                    /\ cave.codemap[cx] = 0
                    /\ cave.codemap[cx + (cave.height - 1) * cave.width] = 0

\* the fill is complete: one cell had exactly two qualifying pairs and took
\* the later one, one drew the very probability of a pair and did not take it,
\* one had no qualifying pair and took dirt
C4_Witness ==
    /\ pc = "boundary"
    /\ Len(FillCalls) = cave.width * (cave.height - 2)
    /\ \E k \in 1 .. Len(FillCalls) :
          Qualifying(FillCalls[k].seed0) = {0, 1} /\ FillCalls[k].obj = 16
    /\ \E k \in 1 .. Len(FillCalls) :
          /\ FillCalls[k].seed0 = cave.random_probabilities[1]
          /\ FillCalls[k].obj = cave.random_objects[0]
    /\ \E k \in 1 .. Len(FillCalls) :
          Qualifying(FillCalls[k].seed0) = {} /\ FillCalls[k].obj = 1

IsBorder(cell) ==
    \/ cell[1] \in {0, cave.width - 1}
    \/ cell[2] \in {0, cave.height - 1}

\* what the fill wrote to a cell of rows 1..height-2
FillValue(cell) == FillCalls[1 + cell[1] + (cell[2] - 1) * cave.width].obj

AsLine(k) == [x |-> k.x, y |-> k.y, length |-> k.a, direction |-> k.b]
AsRect(k) == [x |-> k.x, y |-> k.y, width |-> k.a, height |-> k.b]

\* the cells an instruction is about, all of them cells of the grid
CellsOf(k) ==
    CASE k.kind = 0 -> {<<k.x, k.y>>}
      [] k.kind = 1 -> LineCells(AsLine(k))
      [] OTHER      -> RectCells(AsRect(k))

Regular(k) ==
    /\ k.kind = 1 => k.b \in 0 .. 7
    /\ k.kind \in {2, 3} => (k.a >= 2 /\ k.b >= 2)
    /\ CellsOf(k) \subseteq Cells

\* what an instruction gives a cell it is about; None when it leaves it alone
ValueOf(k, cell) ==
    IF k.kind \in {2, 3} /\ cell \in InteriorCells(AsRect(k))
    THEN (IF k.kind = 2 THEN k.c ELSE None)
    ELSE k.obj

\* the instructions that write the cell, by their place in the stream
Writers(cell) ==
    {i \in 1 .. Len(InstrCalls) :
        cell \in CellsOf(InstrCalls[i]) /\ ValueOf(InstrCalls[i], cell) # None}

\* the code of the last write to the cell in the order fill, boundary,
\* instructions
Painted(cell) ==
    IF Writers(cell) # {}
    THEN ValueOf(InstrCalls[CHOOSE i \in Writers(cell) : \A j \in Writers(cell) : j <= i],
                 cell)
    ELSE IF IsBorder(cell) THEN 7
    ELSE FillValue(cell)

\* C5: build_map writes the fill, then the steel boundary, then the
\* instructions in stream order: right before the first instruction every
\* border cell is 0x07 and every other cell is as the fill left it, and after
\* the last one every cell holds the code of the last write to it.
C5_WriteOrder ==
    /\ (pc = "instr" /\ n = 0 /\ InstrCalls = <<>>) =>
          \A cell \in Cells :
             CellNow(cell) = IF IsBorder(cell) THEN 7 ELSE FillValue(cell)
    /\ (pc = "convert" /\ \A i \in 1 .. Len(InstrCalls) : Regular(InstrCalls[i])) =>
          \A cell \in Cells : CellNow(cell) = Painted(cell)

\* an outline rectangle over the corner of the boundary, then a point on a
\* cell of that rectangle; a border cell and a filled cell nobody drew on
C5_Witness ==
    /\ pc = "convert"
    /\ input.instrs = <<Ins(3, 3, 0, 0, 2, 2, None), Ins(0, 16, 1, 1, None, None, None)>>
    /\ CellNow(<<0, 0>>) = 3
    /\ CellNow(<<1, 1>>) = 16
    /\ CellNow(<<4, 0>>) = 7
    /\ CellNow(<<2, 1>>) = FillValue(<<2, 1>>)

\* the bytes of an instruction, by the kind's table of the format
SizeOfKind(kind) == CASE kind = 0 -> 3 [] kind = 1 -> 5 [] kind = 2 -> 6 [] kind = 3 -> 5

\* the draw call of an instruction as the stream's author wrote it
AsWritten(k) == Ins(k.kind, k.obj, k.x, k.y, k.a, k.b, k.c)

\* the grid right before the first instruction
GridBeforeInstructions ==
    [cave EXCEPT !.codemap =
        [i \in 0 .. cave.width * cave.height - 1 |->
            LET cell == <<i % cave.width, i \div cave.width>>
            IN  IF IsBorder(cell) THEN 7 ELSE FillValue(cell)]]

\* the instructions of a list drawn one after the other
RECURSIVE Replay(_, _)
Replay(c, il) ==
    IF il = <<>> THEN c
    ELSE Replay(Dispatch(c, Head(il).kind, Head(il).obj,
                         [x |-> Head(il).x, y |-> Head(il).y, a |-> Head(il).a,
                          b |-> Head(il).b, c |-> Head(il).c]),
                Tail(il))

\* C6: the stream is parsed from its first byte; each instruction start gives
\* the object code (low 6 bits) and the kind (top 2 bits), then x and y - 2; a
\* point takes 3 bytes, a line 5, a filled rectangle 6, an outline rectangle 5;
\* parsing stops at the first instruction start that is 0xFF or past the end,
\* not at a 0xFF operand, and the bytes after the sentinel leave the grid as
\* the instructions before it made it.
C6_StreamParsedSequentially ==
    /\ \A k \in 1 .. Len(InstrCalls) :
          LET i == InstrCalls[k]
              s == i.start
          IN  /\ s = IF k = 1 THEN 0
                     ELSE InstrCalls[k - 1].start + SizeOfKind(InstrCalls[k - 1].kind)
              /\ data[s] # 255
              /\ i.obj = data[s] % 64
              /\ i.kind = data[s] \div 64
              /\ i.x = data[s + 1] /\ i.y = data[s + 2] - 2
              /\ i.kind \in {1, 2, 3} => (i.a = data[s + 3] /\ i.b = data[s + 4])
              /\ i.kind = 2 => i.c = data[s + 5]
              /\ s + SizeOfKind(i.kind) <= PyLen(data)
    /\ pc \in {"instr", "convert"} =>
          n = IF InstrCalls = <<>> THEN 0
              ELSE InstrCalls[Len(InstrCalls)].start
                      + SizeOfKind(InstrCalls[Len(InstrCalls)].kind)
    /\ pc = "convert" =>
          /\ n = PyLen(data) \/ data[n] = 255
          /\ n = Len(EncodeAll(input.instrs))
          /\ [k \in 1 .. Len(InstrCalls) |-> AsWritten(InstrCalls[k])] = input.instrs
          /\ cave.codemap = Replay(GridBeforeInstructions, input.instrs).codemap

\* a filled rectangle whose fill operand is 0xFF, then a line: both were
\* drawn, the parse stopped at the sentinel and the bytes after it drew nothing
C6_Witness ==
    /\ pc = "convert"
    /\ input.instrs = <<Ins(2, 8, 2, 1, 2, 2, 255), Ins(1, 20, 1, 1, 3, 2, None)>>
    /\ input.tail = <<255, 16, 1, 3>>
    /\ n = 11 /\ data[5] = 255 /\ data[n] = 255
    /\ Len(InstrCalls) = 2
    /\ CellNow(<<1, 1>>) = 20 /\ CellNow(<<3, 2>>) = 8

----------------------------------------------------------------------------
(* decode_from_lvl's contract *)

LastDecoded == decoded[Len(decoded)]

\* C3: decoding the same record again, with any decodes in between, gives the
\* same grid cell for cell and the same metadata: each build starts the
\* generator from (0, seed byte of the record), whatever ran before.
C3_DecodeRepeatable ==
    /\ (pc = "idle" /\ decoded # <<>>) => returned = hist[LastDecoded]
    /\ (pc = "fill" /\ calls = <<>>) =>
          (seeds[0] = 0 /\ seeds[1] = Levels[LastDecoded].data[4])

\* cave A decoded, then cave G, then cave A again
C3_Witness ==
    /\ pc = "idle"
    /\ decoded = <<1, 3, 1>>
    /\ returned.exc = "none"
    /\ returned = hist[1]
    /\ returned # hist[3]
    /\ PyLen(returned.cave.map) = GridWidth * GridHeight
    /\ returned.cave.map[1 + 2 * GridWidth] = <<"INBOXBLINKING", "NOWHERE">>

----------------------------------------------------------------------------
(* CaveSet.cave's contract *)

\* the call before the current state was cave(levelnumber) with a number of
\* the set, and it has ended
EndedInRange ==
    /\ pc = "idle" /\ decoded # <<>>
    /\ LastDecoded \in 1 .. caveset.num_caves

NoCaveReturned == DOMAIN returned = {"exc"} /\ returned.exc # "none"

\* the instruction that starts at s, or one after it, has operands past the end
RECURSIVE StreamTruncated(_, _)
StreamTruncated(d, s) ==
    IF s >= PyLen(d) \/ d[s] = 255 THEN FALSE
    ELSE IF s + SizeOfKind(d[s] \div 64) > PyLen(d) THEN TRUE
    ELSE StreamTruncated(d, s + SizeOfKind(d[s] \div 64))

\* the instruction stream of the record cave(levelnumber) was called for
StreamOf(levelnumber) ==
    LET d == caveset.BD1CAVES[levelnumber].data
    IN  [i \in 0 .. PyLen(d) - 33 |-> d[i + 32]]

\* the symbols of the map of a cave of the parsed file
SymbolsOf(levelnumber) ==
    {caveset.bdcff_caves.caves[levelnumber].map.maplines[r][k] :
        r \in 1 .. caveset.bdcff_caves.caves[levelnumber].height,
        k \in 1 .. caveset.bdcff_caves.caves[levelnumber].width}

\* C12: a truncated instruction stream, a cell left with a code that has no
\* conversion (built-in mode) or a map symbol that is no BDCFF symbol (BDCFF
\* mode) makes cave() end with an error and without a cave; a cave that is
\* returned is complete; and every call gives what the first call for that
\* number gave, whatever failed in between.
C12_DamagedCaveNotProduced ==
    /\ (EndedInRange /\ caveset.mode = "builtin" /\ caveset.caveclass = "None") =>
          /\ StreamTruncated(StreamOf(LastDecoded), 0) => NoCaveReturned
          /\ (/\ ~StreamTruncated(StreamOf(LastDecoded), 0)
              /\ \A i \in 1 .. Len(InstrCalls) : Regular(InstrCalls[i])
              /\ \E cell \in Cells : Painted(cell) \notin DOMAIN conversion)
             => NoCaveReturned
          /\ returned.exc = "none" =>
                /\ DOMAIN returned.cave.map = 0 .. GridWidth * GridHeight - 1
                /\ \A i \in DOMAIN returned.cave.map :
                      \E code \in DOMAIN conversion :
                         returned.cave.map[i] = conversion[code]
    /\ (EndedInRange /\ caveset.mode = "bdcff") =>
          /\ (\E x \in SymbolsOf(LastDecoded) : x \notin DOMAIN BDCFFOBJECTS)
                => NoCaveReturned
          /\ returned.exc = "none" =>
                LET b == caveset.bdcff_caves.caves[LastDecoded]
                IN  /\ DOMAIN returned.cave.map = 0 .. b.width * b.height - 1
                    /\ \A i \in DOMAIN returned.cave.map :
                          \E x \in DOMAIN BDCFFOBJECTS :
                             returned.cave.map[i] = BDCFFOBJECTS[x]
    /\ (pc = "idle" /\ decoded # <<>>) => returned = hist[LastDecoded]

\* cave A is decoded, then the record with the code that has no conversion
\* fails with KeyError, then cave A is decoded again and is what it was
C12_Witness ==
    /\ pc = "idle"
    /\ caveset = CaveSetBuiltin(OtherLevels, "None")
    /\ decoded = <<1, 3, 1>>
    /\ hist[3] = [exc |-> "KeyError"]
    /\ returned.exc = "none"
    /\ returned = hist[1]
    /\ returned.cave.map[1 + 2 * GridWidth] = <<"INBOXBLINKING", "NOWHERE">>

\* C13: cave(n) with n outside 1..num_caves ends with a bounds error and
\* without a cave, in built-in mode and in BDCFF mode alike.  BDCFF mode
\* indexes the list with n - 1 unchecked: cave(0) reads caves[-1] and returns
\* the last cave of the file.
C13_OutOfRangeIndexRejected ==
    (pc = "idle" /\ decoded # <<>> /\ LastDecoded \notin 1 .. caveset.num_caves) =>
        /\ NoCaveReturned
        /\ returned.exc \in {"AssertionError", "IndexError"}

----------------------------------------------------------------------------
(* the two translation tables *)

\* C14: the conversion table of build_map is injective: no two distinct codes
\* have the same (object, direction) pair, so two cells that build_map left
\* with different codes are different cells of the map.  The table gives 0x10
\* and 0x12 the pair of the boulder, and 0x14 and 0x16 the pair of the diamond.
C14_ConversionInjective ==
    (pc = "built" /\ \A i \in 1 .. Len(InstrCalls) : Regular(InstrCalls[i])) =>
        \A c1 \in Cells, c2 \in Cells :
            cave.map[c1[1] + c1[2] * cave.width] = cave.map[c2[1] + c2[2] * cave.width]
                => Painted(c1) = Painted(c2)

\* the map line of the file that was loaded
LoadedLine == caveset.bdcff_caves.caves[1].map.maplines[1]

\* C15: BDCFFOBJECTS is injective, so a symbol translated to its (object,
\* direction) pair and back through the inverted table the editor builds when
\* it saves is the same symbol, for every symbol of the table.
C15_SymbolRoundTrip ==
    /\ \A a \in DOMAIN BDCFFOBJECTS, b \in DOMAIN BDCFFOBJECTS :
          BDCFFOBJECTS[a] = BDCFFOBJECTS[b] => a = b
    /\ pc = "loaded" =>
          \A k \in 1 .. LineLength : cave.map[k - 1] = BDCFFOBJECTS[LoadedLine[k]]
    /\ pc = "saved" =>
          /\ returned.exc = "none"
          /\ returned.maplines = <<LoadedLine>>

\* the line of the hidden and the closed outbox, which differ only in the
\* object, went through the cells and came back
C15_Witness ==
    /\ pc = "saved"
    /\ LoadedLine = <<"H", "X">>
    /\ cave.map[0] = <<"OUTBOXHIDDEN", "NOWHERE">>
    /\ cave.map[1] = <<"OUTBOXCLOSED", "NOWHERE">>
    /\ returned.maplines = <<<<"H", "X">>>>

----------------------------------------------------------------------------
(* the amoeba colour rule *)

HasAmoeba(map) == \E i \in DOMAIN map : map[i][1] = "AMOEBA"

\* C16: a cave decoded by decode_from_lvl has fg3 equal to its amoeba colour
\* (byte 0x15 of the record) when at least one cell of the translated grid is
\* AMOEBA, and fg3 = 1 when none is; the rule is applied once, after the
\* translation: until then fg3 is 1.
C16_AmoebaColourRule ==
    /\ (pc = "idle" /\ decoded # <<>> /\ returned.exc = "none") =>
          LET c == returned.cave
          IN  /\ c.colors.amoeba = Levels[LastDecoded].data[21]
              /\ HasAmoeba(c.map) => c.colors.fg3 = c.colors.amoeba
              /\ ~HasAmoeba(c.map) => c.colors.fg3 = 1
    /\ pc \in {"fill", "boundary", "instr", "convert", "built"} => cave.colors.fg3 = 1

\* cave G, whose stream draws an amoeba, came back with fg3 = 13, after cave A
\* came back with fg3 = 1 and the amoeba colour 9
C16_Witness ==
    /\ pc = "idle"
    /\ decoded = <<1, 3>>
    /\ returned.exc = "none"
    /\ returned.cave.map[2 + 1 * GridWidth] = <<"AMOEBA", "NOWHERE">>
    /\ returned.cave.colors.fg3 = 13
    /\ hist[1].cave.colors.fg3 = 1
    /\ hist[1].cave.colors.amoeba = 9

\* C17: a cave that cave() returns in BDCFF mode, through cave_from_bdcff, has
\* fg3 equal to its amoeba colour when its translated grid holds an AMOEBA
\* cell.  cave_from_bdcff copies color_fg3 and color_amoeba of the file and
\* translates the map; it has no such rule.
C17_BdcffAmoebaColourRule ==
    (/\ pc = "idle" /\ decoded # <<>>
     /\ caveset.mode = "bdcff"
     /\ returned.exc = "none"
     /\ HasAmoeba(returned.cave.map))
        => returned.cave.colors.fg3 = returned.cave.colors.amoeba

----------------------------------------------------------------------------
(* resize's contract *)

\* the margin of a difference: the d with 2d <= difference <= 2d + 1
Margin(difference) ==
    CHOOSE d \in 0 .. difference : 2 * d <= difference /\ difference <= 2 * d + 1

\* C18: resize(W, H) on a cave of width * height cells, with W >= width and
\* H >= height, gives a map of exactly W * H cells with width = W and height
\* = H; the old cell (x, y) is at (x + floor((W - width) / 2), y + floor((H -
\* height) / 2)) and every other cell is (EMPTY, NOWHERE).
C18_ResizeCenters ==
    (/\ pc \in {"done", "error"}
     /\ LastCall.target_width >= pre.width
     /\ LastCall.target_height >= pre.height) =>
        LET W  == LastCall.target_width
            H  == LastCall.target_height
            dx == Margin(W - pre.width)
            dy == Margin(H - pre.height)
            Old(x, y) == (dx <= x /\ x < dx + pre.width /\ dy <= y /\ y < dy + pre.height)
        IN  /\ pc = "done"
            /\ cave.width = W /\ cave.height = H
            /\ DOMAIN cave.map = 0 .. W * H - 1
            /\ \A x \in 0 .. W - 1, y \in 0 .. H - 1 :
                  cave.map[x + y * W] =
                     IF Old(x, y) THEN pre.map[(x - dx) + (y - dy) * pre.width]
                     ELSE <<"EMPTY", "NOWHERE">>

\* 10 x 8 resized to 14 x 10: the original starts at column 2 of row 1 and
\* ends at column 11 of row 8, around it all is empty
C18_Witness ==
    /\ pc = "done"
    /\ pre.width = 10 /\ pre.height = 8
    /\ cave.width = 14 /\ cave.height = 10
    /\ PyLen(cave.map) = 140
    /\ cave.map[2 + 1 * 14] = pre.map[0]
    /\ cave.map[11 + 8 * 14] = pre.map[79]
    /\ cave.map[1 + 1 * 14] = <<"EMPTY", "NOWHERE">>
    /\ cave.map[12 + 8 * 14] = <<"EMPTY", "NOWHERE">>
    /\ pre.map[0] # <<"EMPTY", "NOWHERE">>

\* C19: resize commits only a grid of exactly target_width * target_height
\* cells: the call ends with len(map) = width * height = target_width *
\* target_height, or it fails with AssertionError and width, height and map
\* are unchanged; a target smaller than the cave in either dimension never
\* commits.  The assertion compares the cell count with the product only: two
\* negative targets whose product is the cell count of the cave pass it.
C19_ResizeCommitsExactSize ==
    pc \in {"done", "error"} =>
        /\ pc = "done" =>
              /\ PyLen(cave.map) = cave.width * cave.height
              /\ cave.width * cave.height = LastCall.target_width * LastCall.target_height
        /\ pc = "error" =>
              /\ cave.exc = "AssertionError"
              /\ cave.width = pre.width /\ cave.height = pre.height /\ cave.map = pre.map
        /\ (LastCall.target_width < pre.width \/ LastCall.target_height < pre.height)
              => pc = "error"

----------------------------------------------------------------------------
(* cave constructions share no mutable state *)

\* the cave decode_from_lvl hands to build_map when it runs alone
HeaderCaveAlone(record) ==
    LET d == record.data
    IN  [NewC64Cave(d[0], record.name, GridWidth, GridHeight) EXCEPT
            !.codemap = [i \in 0 .. GridWidth * GridHeight - 1 |-> 0],
            !.intermission = IsIntermission(record.name),
            !.magicwall_millingtime = d[1],
            !.amoeba_slowgrowthtime = d[1],
            !.diamondvalue_normal = d[2],
            !.diamondvalue_extra = d[3],
            !.randomseed = d[4],
            !.diamonds_required = d[9],
            !.time = d[14],
            !.colors = [fg1 |-> d[19], fg2 |-> d[20], fg3 |-> 1, amoeba |-> d[21],
                        slime |-> 6, screen |-> 0, border |-> 0],
            !.random_objects = PyList(<<d[24], d[25], d[26], d[27]>>),
            !.random_probabilities = PyList(<<d[28], d[29], d[30], d[31]>>),
            !.amoebafactor = "0.2273"]

\* the two fill loops run without interruption, from interior cell k on
RECURSIVE FillAlone(_, _, _)
FillAlone(c, s, k) ==
    IF c.exc # "none" \/ k >= c.width * (c.height - 2) THEN c
    ELSE LET r   == bdrandom(s)
             obj == RandomObject(r.seeds[0], c.random_objects, c.random_probabilities)
         IN  FillAlone(draw_single(c, obj, k % c.width, 1 + (k \div c.width)), r.seeds, k + 1)

\* the instruction loop run without interruption, from position i on
RECURSIVE InstructionsAlone(_, _, _)
InstructionsAlone(c, d, i) ==
    IF c.exc # "none" \/ i >= PyLen(d) THEN c
    ELSE IF d[i] >= 255 THEN c
    ELSE LET kind == d[i] \div 64
             obj  == d[i] % 64
         IN  IF i + InstructionLength(kind) > PyLen(d)
             THEN [c EXCEPT !.exc = "IndexError"]
             ELSE InstructionsAlone(
                      Dispatch(c, kind, obj,
                               [x |-> d[i + 1], y |-> d[i + 2] - 2,
                                a |-> IF kind > 0 THEN d[i + 3] ELSE None,
                                b |-> IF kind > 0 THEN d[i + 4] ELSE None,
                                c |-> IF kind = 2 THEN d[i + 5] ELSE None]),
                      d, i + InstructionLength(kind))

\* what cave(levelnumber) gives over a table when nothing else runs
AloneOutcome(table, levelnumber) ==
    IF levelnumber \notin 1 .. Len(table) THEN [exc |-> "AssertionError"]
    ELSE LET c0 == HeaderCaveAlone(table[levelnumber])
             c1 == FillAlone(c0, PyList(<<0, c0.randomseed>>), 0)
             c2 == InstructionsAlone(SteelRectangle(c1), Slice(table[levelnumber].data, 32), 0)
         IN  IF c2.exc # "none" THEN [exc |-> c2.exc]
             ELSE IF \E i \in DOMAIN c2.codemap : c2.codemap[i] \notin DOMAIN conversion
             THEN [exc |-> "KeyError"]
             ELSE LET map == [i \in DOMAIN c2.codemap |-> conversion[c2.codemap[i]]]
                      c3  == [c2 EXCEPT !.map = map, !.codemap = <<>>]
                  IN  [exc |-> "none",
                       cave |-> IF HasAmoeba(map)
                                THEN [c3 EXCEPT !.colors.fg3 = c3.colors.amoeba]
                                ELSE c3]

\* a step in which the running call returns to its caller
CallReturns ==
    /\ suspended' = suspended
    /\ \/ pc \in {"built", "error"} /\ pc' = "idle"
       \/ caveset.mode = "bdcff" /\ decoded' # decoded

\* what cave(levelnumber) gives over the caves of a file when nothing else runs
AloneBdcffOutcome(file, levelnumber) ==
    LET b == CaveOfList(file.caves, levelnumber)
        c == cave_from_bdcff(CaveSetBdcff(file, "None"), levelnumber, b.cave)
    IN  IF b.exc # "none" THEN [exc |-> b.exc]
        ELSE IF c.exc # "none" THEN [exc |-> c.exc]
        ELSE [exc |-> "none", cave |-> c]

\* what the call that returns would have given alone, over the catalog as it
\* was constructed
ReferenceOutcome ==
    IF caveset.mode = "builtin"
    THEN AloneOutcome(PairOfLevels, LastDecoded)
    ELSE AloneBdcffOutcome(BdcffFile, LastDecoded')

\* C20: two calls of cave() whose steps are interleaved in any order each
\* return the grid and metadata they return when run alone, whatever a caller
\* has done to a cave returned before (cells, colours, resize), and no step
\* changes the table of built-in caves or the caves read from a file
C20_NoSharedState ==
    [][/\ caveset' = caveset
       /\ CallReturns => returned' = ReferenceOutcome]_vars

\* a call returns its cave unharmed after both calls were under way together,
\* the other call (of the amoeba cave) being in its instruction loop still
C20_Witness ==
    /\ caveset = CaveSetBuiltin(PairOfLevels, "None")
    /\ pc = "idle" /\ decoded = <<1>> /\ input.overlapped
    /\ suspended.pc = "instr" /\ suspended.decoded = <<2>>
    /\ returned = AloneOutcome(PairOfLevels, 1)
    /\ returned.exc = "none"

----------------------------------------------------------------------------
(* bdrandom's precondition *)

\* a list of exactly two bytes
TwoBytes(s) == DOMAIN s = {0, 1} /\ s[0] \in 0 .. 255 /\ s[1] \in 0 .. 255

\* C21: bdrandom called with a seed list that does not have exactly two
\* entries, or with a seed outside 0..255, fails with an assertion error and
\* leaves the seed list as it was.
C21_BadSeedsRejected ==
    (BdrandomCalled /\ ~TwoBytes(pre)) =>
        /\ pc = "error"
        /\ returned = "AssertionError"
        /\ seeds = pre

\* a list of two entries whose first is a byte and whose second is not
C21_Witness ==
    /\ BdrandomCalled
    /\ pre = PyList(<<255, 256>>)
    /\ pc = "error"
    /\ seeds = pre

----------------------------------------------------------------------------
(* the slots of a Palette resolve to colours *)

\* an rgb_* property of a constructed Palette was read
SlotResolved == calls # <<>> /\ calls[1].op = "rgb"

\* C22: every slot value the Palette constructor accepts resolves through the
\* rgb_* accessors without failing: a '#' literal to its own hexadecimal
\* value, any other accepted value v to entry v of the 16-entry colour table,
\* v lying in 0..15.
C22_AcceptedSlotsResolve ==
    SlotResolved =>
        LET stored == returned.palette[calls[1].slot]
        IN  /\ calls[1].exc = "none"
            /\ IF stored.type = "str"
               THEN calls[1].rgb = int(Tail(stored.str), 16).value
               ELSE /\ stored.int \in 0 .. 15
                    /\ calls[1].rgb = colorpalette[stored.int]

----------------------------------------------------------------------------
(* the kind of an instruction *)

\* C23: whatever byte below 255 stands at an instruction start, the kind
\* computed from it is one of 0, 1, 2, 3, and the instruction loop never takes
\* the branch that raises ValueError.
C23_KindIsTwoBits ==
    /\ \A k \in 1 .. Len(calls) : calls[k].op = "instr" => calls[k].kind \in 0 .. 3
    /\ cave.exc # "ValueError"

\* the largest byte that is not the sentinel was decoded: kind 3, object 62
C23_Witness ==
    /\ data[0] = 254
    /\ calls # <<>>
    /\ calls[1].op = "instr" /\ calls[1].start = 0
    /\ calls[1].kind = 3 /\ calls[1].obj = 62

----------------------------------------------------------------------------
(* the built-in records decode *)

\* the cells the four lines and the fill loop of draw_rectangle write
RectWritten(k) ==
    LineCells([x |-> k.x, y |-> k.y, length |-> k.a, direction |-> 2])
    \cup LineCells([x |-> k.x, y |-> k.y + k.b - 1, length |-> k.a, direction |-> 2])
    \cup LineCells([x |-> k.x, y |-> k.y + 1, length |-> k.b - 2, direction |-> 4])
    \cup LineCells([x |-> k.x + k.a - 1, y |-> k.y + 1, length |-> k.b - 2, direction |-> 4])
    \cup (IF k.kind = 2 THEN InteriorCells(AsRect(k)) ELSE {})

\* the cells an instruction writes
WrittenBy(k) ==
    CASE k.kind = 0 -> {<<k.x, k.y>>}
      [] k.kind = 1 -> LineCells(AsLine(k))
      [] OTHER      -> RectWritten(k)

\* a built-in record is being decoded, or was
DecodingRecord == decoded # <<>> /\ LastDecoded \in 1 .. Len(BD1CAVES)

\* C24: each of the 20 records of BD1CAVES decodes without error: the fill
\* and every instruction write inside 0 <= x < 40, 0 <= y < 22, every
\* instruction has its operands before the end of the data, every code has a
\* conversion, and the cave returned is 40 x 22 with a map of 880 cells.
C24_BuiltinRecordsDecode ==
    DecodingRecord =>
        /\ pc # "error"
        /\ Len(BD1CAVES) = 20
        /\ \A k \in 1 .. Len(calls) :
              /\ calls[k].op = "fill" => InGrid(calls[k].x, calls[k].y)
              /\ calls[k].op = "instr" =>
                    /\ calls[k].kind = 1 => calls[k].b \in 0 .. 7
                    /\ \A cell \in WrittenBy(calls[k]) : InGrid(cell[1], cell[2])
                    /\ calls[k].start + InstructionLength(calls[k].kind) <= PyLen(data)
        /\ pc = "idle" =>
              /\ returned.exc = "none"
              /\ returned.cave.width = 40 /\ returned.cave.height = 22
              /\ PyLen(returned.cave.map) = 880
              /\ returned.cave.codemap = <<>>

\* the last record, Intermission 4, was decoded: 9 instructions after 800
\* filled cells and the boundary, Rockford's inbox at (3, 1)
C24_Witness ==
    /\ decoded = <<20>>
    /\ pc = "idle"
    /\ returned.exc = "none"
    /\ returned.cave.name = "Intermission 4"
    /\ Len(FillCalls) = 800 /\ Len(InstrCalls) = 9
    /\ returned.cave.map[3 + 1 * 40] = <<"INBOXBLINKING", "NOWHERE">>
    /\ PyLen(returned.cave.map) = 880

----------------------------------------------------------------------------
(* draw_rectangle's frame *)

\* the rectangle and the cells next to it are cells of the buffer
RectWellInside(k) ==
    /\ InGrid(k.x - 1, k.y - 1)
    /\ InGrid(k.x + k.width, k.y + k.height)

\* C25: draw_rectangle changes only cells with x1 <= x < x1 + width and
\* y1 <= y < y1 + height, for every width >= 0 and height >= 0; a rectangle
\* of zero width or zero height writes nothing. (Stated for rectangles that
\* lie well inside the buffer.)
C25_RectangleFrame ==
    (Called("draw_rectangle") /\ RectWellInside(LastCall)) =>
        \A cell \in Cells :
            cell \notin RectCells(LastCall) => CellNow(cell) = CellBefore(cell)

----------------------------------------------------------------------------
(* save and playtest of the editor *)

\* the cells of the four edges of a cave
EdgeCells(c) ==
    {<<x, y>> \in (0 .. c.width - 1) \X (0 .. c.height - 1) :
        x = 0 \/ y = 0 \/ x = c.width - 1 \/ y = c.height - 1}

\* a map with an inbox, an outbox and closed edges
Sane(c) ==
    /\ \E i \in DOMAIN c.map : c.map[i][1] = "INBOXBLINKING"
    /\ \E i \in DOMAIN c.map : c.map[i][1] \in {"OUTBOXCLOSED", "OUTBOXBLINKING"}
    /\ \A cell \in EdgeCells(c) :
          c.map[cell[1] + c.width * cell[2]][1]
              \in {"STEEL", "INBOXBLINKING", "OUTBOXBLINKING", "OUTBOXCLOSED"}

\* C26: save writes a cave file (and returns True) only when the map holds an
\* inbox, an outbox and nothing but steel, inboxes and outboxes on its four
\* edges; on any other map it returns False and leaves every file as it
\* was; playtest launches the game only after its save returned True.
C26_SaveOnlySaneCaves ==
    [][(calls' # <<>> /\ calls'[1].op \in {"save", "playtest"})
        => /\ (editor'.files # editor.files \/ returned' = TRUE) => Sane(cave)
           /\ ~Sane(cave) => (returned' = FALSE /\ editor'.files = editor.files)
           /\ editor'.launched # editor.launched
                 => (calls'[1].op = "playtest" /\ returned' = TRUE /\ Sane(cave)
                     /\ editor'.launched = editor.launched \cup {editor'.files.playtest})]_vars

\* a sane cave was written to the chosen file, and an unsaved one refused
C26_Witness ==
    /\ calls # <<>> /\ calls[1].op = "playtest"
    /\ returned = TRUE
    /\ Sane(cave)
    /\ editor.files.playtest # NoFile
    /\ editor.files.playtest \in editor.launched
    /\ pre.files.playtest = NoFile

----------------------------------------------------------------------------
(* snapshot and restore of the editor's cave *)

\* C27: restore() after a snapshot() and any edits made since (cells drawn
\* or erased, flood fills, random drops) makes the map equal, object and
\* direction of every cell, to the map at the time of the snapshot, and it
\* leaves the snapshot as it was.
C27_RestoreUndoesEdits ==
    [][(calls' # <<>> /\ calls'[1].op = "restore")
        => /\ calls'[1].exc = "none"
           /\ cave'.map = hist[1]
           /\ cave'.map_snapshot = cave.map_snapshot
           /\ cave'.map_snapshot = hist[1]]_vars

\* a snapshot that held a firefly was restored over a map two edits away
C27_Witness ==
    /\ calls # <<>> /\ calls[1].op = "restore"
    /\ editor.edits = MaxEdits
    /\ pre.map # hist[1]
    /\ cave.map = hist[1]
    /\ \E i \in DOMAIN hist[1] : hist[1][i] = <<"FIREFLY", "LEFT">>
    /\ \E i \in DOMAIN hist[1] : hist[1][i][1] = "FIREFLY" /\ pre.map[i][1] # "FIREFLY"

----------------------------------------------------------------------------
(* the editor's random fill against the fill of build_map *)

\* the code build_map draws for an object of the randomize dialog
ObjectCode ==
    ("Empty" :> 0) @@ ("Dirt" :> 1) @@ ("Brick" :> 2) @@ ("Magicwall" :> 3)
    @@ ("Outboxclosed" :> 4) @@ ("Steel" :> 7) @@ ("Firefly" :> 8) @@ ("Boulder" :> 16)
    @@ ("Diamond" :> 20) @@ ("Inboxblinking" :> 37) @@ ("Butterfly" :> 48)
    @@ ("Amoeba" :> 58)

\* the grid build_map holds after its fill loops and its steel boundary, as
\* converted at its end
BuildMapFill(width, height, f) ==
    [i \in 0 .. width * height - 1 |->
        LET x == i % width
            y == i \div width
        IN  IF x = 0 \/ y = 0 \/ x = width - 1 \/ y = height - 1
            THEN conversion[7]
            ELSE conversion[RandomObject(
                     SeedsAfter((y - 1) * width + x + 1, f.rseed)[1],
                     [k \in DOMAIN f.randomobjs |-> ObjectCode[f.randomobjs[k]]],
                     f.randomprobs)]]

\* C28: do_random_fill overwrites every cell of the playfield with the grid
\* that the fill loops and the steel boundary of build_map produce for the
\* same seed, probabilities and objects, whatever the cave held before.
C28_RandomFillIsBuildMapFill ==
    (calls # <<>> /\ calls[1].op = "randomfill")
        => /\ calls[1].exc = "none"
           /\ cave.map = BuildMapFill(editor.playfield_columns, editor.playfield_rows,
                                      calls[1].fill)

----------------------------------------------------------------------------
(* flood_fill *)

\* the cells of the grid next to a cell, inside the grid
Neighbours(cell, width, height) ==
    {nb \in (0 .. width - 1) \X (0 .. height - 1) :
        \/ nb[2] = cell[2] /\ (nb[1] = cell[1] - 1 \/ nb[1] = cell[1] + 1)
        \/ nb[1] = cell[1] /\ (nb[2] = cell[2] - 1 \/ nb[2] = cell[2] + 1)}

\* the cells holding target that are 4-connected to region through such cells
RECURSIVE Connected(_, _, _, _, _)
Connected(region, map, target, width, height) ==
    LET more == {nb \in UNION {Neighbours(cell, width, height) : cell \in region} :
                    map[nb[1] + width * nb[2]][1] = target} \ region
    IN  IF more = {} THEN region
        ELSE Connected(region \cup more, map, target, width, height)

\* the map a flood fill of the connected region leaves
Flooded(map, x, y, obj, width, height) ==
    LET target == map[x + width * y][1]
        region == Connected({<<x, y>>}, map, target, width, height)
    IN  IF target = obj THEN map
        ELSE [i \in DOMAIN map |->
                 IF <<i % width, i \div width>> \in region
                 THEN <<obj, StoredDirection(obj, "NOWHERE")>>
                 ELSE map[i]]

\* C29: flood_fill started at a cell of the grid sets to the selected thing
\* exactly the cells that hold the start cell's object and are 4-connected
\* to it inside the grid, leaves the other cells as they were, stays inside
\* the grid (no exception, no step from a row end into the next row) and
\* changes nothing when the start cell holds the thing's object already.
C29_FloodFillsConnectedRegion ==
    pc = "flooded"
        => /\ calls[1].exc = "none"
           /\ cave.map = Flooded(pre.map, calls[1].x, calls[1].y, calls[1].obj,
                                 cave.width, cave.height)

----------------------------------------------------------------------------
(* the playfield and the cave of the editor *)

\* C30: in every state of the editor, after any wipes, loads, random fills
\* and palette switches, the playfield has the size of the cave and the map
\* has width * height cells.
C30_PlayfieldMatchesCave ==
    editor.constructed
        => /\ editor.playfield_columns = cave.width
           /\ editor.playfield_rows = cave.height
           /\ PyLen(cave.map) = cave.width * cave.height

====
